---- MODULE Spec2Model ----
(***************************************************************************)
(* A model of volart/ticket-score-service: the weighted score formula      *)
(* (TicketScoreService.CalculateScore), the chunked overall-quality        *)
(* engine, the per-ticket fan-out scorer with its gRPC receive loop, and   *)
(* the daily/weekly category analytics engine.                             *)
(*                                                                         *)
(* Scores are float64 in the program; the model keeps them as exact        *)
(* fractions <<numerator, denominator>> in lowest terms.  Dates are day    *)
(* numbers (midnight UTC, as time.Parse("2006-01-02") yields); day 0 is a  *)
(* Monday, so the weekday of day d is d % 7 counted from Monday.           *)
(***************************************************************************)
EXTENDS Integers, Sequences, FiniteSets, TLC

VARIABLES
    \* ---- CalculateScore (pure function, applied to drawn inputs)
    ratings,        \* the ratings argument: sequence of [cat, value]
    categories,     \* the categories argument: sequence of [id, weight]
    scoreResult,    \* what CalculateScore returned: [err, score]
    scorePc         \* "input" before the call, "done" after it

VARIABLES
    \* ---- GetOverallQualityScore (chunked aggregation engine)
    oqStore,        \* the ratings of the requested range, in the store's order
    oqCats,         \* the category list the category store holds
    oqRange,        \* <<startDate, endDate>> of the request
    oqPc,           \* position of the calling goroutine
    oqTotal,        \* totalCount as returned by CountByDateRange
    oqLog,          \* repository calls made so far, in order
    oqCancelled,    \* ctx.Done() is closed
    chunks,         \* ChunkID -> the chunk task: [pc, offset, limit, res]
    oqSem,          \* number of permits held (len(semaphore))
    oqWg,           \* the WaitGroup counter
    oqChan,         \* resultChan's buffer
    oqChanClosed,   \* resultChan is closed
    oqCloserPc,     \* the goroutine that waits on wg and closes resultChan
    oqAgg,          \* aggregateChunkResults' locals: [tw, tm, errors]
    oqResult        \* what GetOverallQualityScore returned

VARIABLES
    \* ---- GetTicketScores (per-ticket fan-out and the gRPC receive loop)
    tsTickets,          \* the ticket IDs GetDistinctTicketIDsByDateRange returns
    tsPc,               \* position of the producer goroutine
    tasks,              \* ticket ID -> the ticket task: [pc, failed]
    tsSem,              \* number of permits held (len(semaphore))
    tsWg,               \* the WaitGroup counter
    tsResChan,          \* resultChan's buffer (ticket IDs of the records)
    tsResClosed,        \* resultChan is closed
    tsErrChan,          \* errorChan's buffer
    tsErrClosed,        \* errorChan is closed
    tsCancelled,        \* the stream context is done
    tsCallerCancelled,  \* ... because the caller cancelled the RPC
    tsFetchFailed,      \* a repository fetch of this call has failed
    tsRpc,              \* the RPC's outcome: "running" until the handler returns
    tsDelivered         \* ticket ID -> records sent to the client for it

VARIABLES
    \* ---- calculateTicketScore (per-category fan-out for one ticket)
    calcCats,       \* the loaded category list: sequence of [id, weight]
    calcRatings,    \* index of a category -> the ticket's ratings in it
    calcPc,         \* position of the calling goroutine
    catTasks,       \* index of a category -> its goroutine: [pc, res]
    calcWg,         \* the WaitGroup counter
    calcChan,       \* resultChan's buffer
    calcChanClosed, \* resultChan is closed
    calcCloserPc,   \* the goroutine that waits on wg and closes resultChan
    calcOut,        \* ticketScore.Categories built so far
    calcResult      \* what calculateTicketScore returned: [status, categories]

VARIABLES
    \* ---- GetCategoryAnalytics (daily / weekly category analytics)
    caStore,        \* which rating store the call runs against
    caCats,         \* the category list the category store holds
    caRange,        \* <<startDate, endDate>> of the request, as day numbers
    caPc,           \* position of the call
    caResults,      \* the CategoryAnalytics built so far
    caFetched,      \* the <<category id, day>> pairs fetched so far
    caTotals,       \* per processed category, the ratings accumulated for it
    caFetchError,   \* the repository call that returned an error, <<>> if none
    caResult        \* what GetCategoryAnalytics returned: [status, analytics]

VARIABLES
    \* ---- combining the sums of arbitrary pages of one rating set
    cbRatings,      \* the rating set, as the store lists it
    cbCats,         \* the category list
    cbSplit,        \* index of a rating -> the page it is on
    cbPending,      \* the pages whose sums are not added yet
    cbAgg,          \* the running totals: [tw, tm, errors]
    cbPc,           \* position: "combine", "done" (or "idle")
    cbScore         \* the final percentage, once done

VARIABLES
    \* ---- period comparison: calculatePeriodDates and calculateDifference
    pdStart,        \* the starting date, as a day number (day 0 = EpochYear-01-01)
    pdUnit,         \* the period type of the request (an enum number)
    pdPc,           \* "input", "done" (or "idle")
    pdResult,       \* what calculatePeriodDates returned: [err, p]
    dfOlder,        \* calculateDifference's firstScore
    dfRecent,       \* calculateDifference's secondScore
    dfPc,           \* "input", "done" (or "idle")
    dfResult,       \* the difference string it returned
    \* ---- the unary gRPC handlers and the service layer behind them
    srvHandler,     \* which handler serves: "period", "overall" (or "none")
    srvReq,         \* the request: [start, end, unit], dates as text fields
    srvStore,       \* what the store makes GetOverallQualityScore yield per call
    srvPc,          \* position of the handler
    srvPeriods,     \* the four dates calculatePeriodDates gave the handler
    srvCalls,       \* the service-layer calls made so far, as date ranges
    srvFirst,       \* firstPeriodScore
    srvResponse     \* the handler's return: [code, body]

scoreVars == <<ratings, categories, scoreResult, scorePc>>
oqVars == <<oqStore, oqCats, oqRange, oqPc, oqTotal, oqLog, oqCancelled, chunks,
            oqSem, oqWg, oqChan, oqChanClosed, oqCloserPc, oqAgg, oqResult>>

tsVars == <<tsTickets, tsPc, tasks, tsSem, tsWg, tsResChan, tsResClosed, tsErrChan,
            tsErrClosed, tsCancelled, tsCallerCancelled, tsFetchFailed, tsRpc,
            tsDelivered>>

calcVars == <<calcCats, calcRatings, calcPc, catTasks, calcWg, calcChan, calcChanClosed,
              calcCloserPc, calcOut, calcResult>>

caVars == <<caStore, caCats, caRange, caPc, caResults, caFetched, caTotals, caFetchError,
           caResult>>

cbVars == <<cbRatings, cbCats, cbSplit, cbPending, cbAgg, cbPc, cbScore>>

pdVars == <<pdStart, pdUnit, pdPc, pdResult>>
dfVars == <<dfOlder, dfRecent, dfPc, dfResult>>
srvVars == <<srvHandler, srvReq, srvStore, srvPc, srvPeriods, srvCalls, srvFirst,
             srvResponse>>
pcVars == <<pdVars, dfVars, srvVars>>

vars == <<scoreVars, oqVars, tsVars, calcVars, caVars, cbVars, pcVars>>

----------------------------------------------------------------------------
(* Bounds and input domains                                                *)

MaxRatings == 3
MaxCats == 2

\* category ids a rating or a category may carry
CatIds == {1, 2}
\* category weights (0 is valid and zeroes the category's contribution)
Weights == {0, 1, 2}
\* rating values: the range 0..5 with both neighbours outside it
RatingValues == {-1, 0, 3, 5, 6}

RatingRec == [cat : CatIds, value : RatingValues]
CategoryRec == [id : CatIds, weight : Weights]

SeqsUpTo(S, n) == UNION {[1..k -> S] : k \in 0..n}

----------------------------------------------------------------------------
(* Exact fractions                                                         *)

RECURSIVE GCD(_, _)
GCD(a, b) == IF b = 0 THEN a ELSE GCD(b, a % b)

\* n/d in lowest terms, n >= 0, d > 0
Frac(n, d) == <<n \div GCD(n, d), d \div GCD(n, d)>>

----------------------------------------------------------------------------
(* TicketScoreService.CalculateScore                                       *)

ScoreErr(e) == [err |-> e, score |-> <<0, 1>>]
ScoreOk(tw, tm) == [err |-> "none", score |-> Frac(100 * tw, tm)]

\* categoryWeights := make(map[int]int); later entries overwrite earlier ones
RECURSIVE CategoryWeights(_, _, _)
CategoryWeights(cats, i, m) ==
    IF i > Len(cats) THEN m
    ELSE CategoryWeights(cats, i + 1,
            [x \in (DOMAIN m) \cup {cats[i].id} |->
                IF x = cats[i].id THEN cats[i].weight ELSE m[x]])

\* mutants of ScoreLoop
RECURSIVE ScoreLoopMaxNotScaled(_, _, _, _, _)
ScoreLoopMaxNotScaled(rs, w, i, tw, tm) ==
    IF i > Len(rs)
    THEN IF tm = 0 THEN ScoreErr("ZeroPossible") ELSE ScoreOk(tw, tm)
    ELSE IF rs[i].cat \notin DOMAIN w THEN ScoreErr("UnknownCategory")
    ELSE IF rs[i].value < 0 \/ rs[i].value > 5 THEN ScoreErr("OutOfRange")
    ELSE ScoreLoopMaxNotScaled(rs, w, i + 1,
            tw + rs[i].value * w[rs[i].cat], tm + w[rs[i].cat] * 4)

RECURSIVE ScoreLoopNoUpperCheck(_, _, _, _, _)
ScoreLoopNoUpperCheck(rs, w, i, tw, tm) ==
    IF i > Len(rs)
    THEN IF tm = 0 THEN ScoreErr("ZeroPossible") ELSE ScoreOk(tw, tm)
    ELSE IF rs[i].cat \notin DOMAIN w THEN ScoreErr("UnknownCategory")
    ELSE IF rs[i].value < 0 THEN ScoreErr("OutOfRange")
    ELSE ScoreLoopNoUpperCheck(rs, w, i + 1,
            tw + rs[i].value * w[rs[i].cat], tm + w[rs[i].cat] * 5)

\* the loop over ratings lo..hi, as <<error, totalWeightedScore,
\* totalMaxPossibleScore>>: the error of the first offending rating, or the
\* two sums.  The iterations are taken as those of the first half of the
\* ratings followed by those of the rest; an error ends the loop
RECURSIVE ScoreSums(_, _, _, _)
ScoreSums(rs, w, lo, hi) ==
    IF lo > hi THEN <<"none", 0, 0>>
    ELSE IF lo < hi
    THEN LET a == ScoreSums(rs, w, lo, (lo + hi) \div 2)
         IN IF a[1] # "none" THEN a
            ELSE LET b == ScoreSums(rs, w, ((lo + hi) \div 2) + 1, hi)
                 IN IF b[1] # "none" THEN b ELSE <<"none", a[2] + b[2], a[3] + b[3]>>
    ELSE IF rs[lo].cat \notin DOMAIN w THEN <<"UnknownCategory", 0, 0>>
    ELSE IF rs[lo].value < 0 \/ rs[lo].value > 5 THEN <<"OutOfRange", 0, 0>>
    ELSE <<"none", rs[lo].value * w[rs[lo].cat], w[rs[lo].cat] * 5>>

\* the loop from rating i with the sums so far, and the final division
ScoreLoop(rs, w, i, tw, tm) ==
    LET s == ScoreSums(rs, w, i, Len(rs))
    IN IF s[1] # "none" THEN ScoreErr(s[1])
       ELSE IF tm + s[3] = 0 THEN ScoreErr("ZeroPossible")
       ELSE ScoreOk(tw + s[2], tm + s[3])

CalculateScore(rs, cats) ==
    IF Len(rs) = 0 THEN ScoreErr("NoRatings")
    ELSE ScoreLoop(rs, CategoryWeights(cats, 1, <<>>), 1, 0, 0)

ScoreIdle ==
    /\ ratings = <<>>
    /\ categories = <<>>
    /\ scoreResult = ScoreErr("unset")
    /\ scorePc = "idle"

----------------------------------------------------------------------------
(* Score strings and period labels                                         *)

\* a score string: "N/A" or "<pct>%"
NA == [na |-> TRUE, pct |-> 0]
Pct(n) == [na |-> FALSE, pct |-> n]

\* fmt.Sprintf("%.0f", x) for x = f[1]/f[2] >= 0: the nearest integer, an
\* exact tie going to the even neighbour
RoundHalfEven(f) ==
    LET q == f[1] \div f[2]
        r == f[1] % f[2]
    IN IF 2 * r < f[2] THEN q
       ELSE IF 2 * r > f[2] THEN q + 1
       ELSE IF q % 2 = 0 THEN q ELSE q + 1

\* utils.FormatScore
FormatScore(f) == IF f[1] = 0 THEN Pct(0) ELSE Pct(RoundHalfEven(f))

\* utils.FormatDateRange: one date, or "<start> to <end>"
FormatDateRange(s, e) == IF s = e THEN <<s>> ELSE <<s, e>>

----------------------------------------------------------------------------
(* OverallQualityService: the chunked aggregation engine                   *)

\* the service's tunables (maxGoroutines, chunkSize), scaled down
MaxGoroutines == 2
ChunkSize == 2
\* the largest rating count of a request
MaxTotal == 5

\* the rating store's rows for the requested range, in its order
OQBaseStore ==
    << [cat |-> 1, value |-> 4], [cat |-> 1, value |-> 5], [cat |-> 2, value |-> 3],
       [cat |-> 2, value |-> 4], [cat |-> 1, value |-> 5], [cat |-> 2, value |-> 0],
       [cat |-> 1, value |-> 1], [cat |-> 2, value |-> 5] >>
OQStores == {SubSeq(OQBaseStore, 1, n) : n \in 0..MaxTotal}
\* category stores: both categories weighted; only a zero-weight category;
\* only category 1, so that the ratings of category 2 are in no listed category
OQCategoryLists ==
    { << [id |-> 1, weight |-> 10], [id |-> 2, weight |-> 5] >>,
      << [id |-> 1, weight |-> 0] >>,
      << [id |-> 1, weight |-> 10] >> }
OQRanges == { <<0, 6>>, <<3, 3>> }

NumChunks(totalCount) == (totalCount + ChunkSize - 1) \div ChunkSize

\* mutant of ChunkWeight: a category missing from the map weighs 1
ChunkWeightUnknownAsOne(w, id) == IF id \in DOMAIN w THEN w[id] ELSE 1

\* map lookup categoryWeights[id]: the zero value for a missing key
ChunkWeight(w, id) == IF id \in DOMAIN w THEN w[id] ELSE 0

\* mutant of ChunkSums: the maximum counts 5 per rating, the weight forgotten
RECURSIVE ChunkSumsUnweightedMax(_, _, _, _, _)
ChunkSumsUnweightedMax(rs, w, i, ws, ms) ==
    IF i > Len(rs) THEN <<ws, ms>>
    ELSE ChunkSumsUnweightedMax(rs, w, i + 1,
            ws + rs[i].value * ChunkWeight(w, rs[i].cat), ms + 5)

\* mutant of ChunkSums: the maximum of a rating taken as 4
RECURSIVE ChunkSumsMaxOfFour(_, _, _, _, _)
ChunkSumsMaxOfFour(rs, w, i, ws, ms) ==
    IF i > Len(rs) THEN <<ws, ms>>
    ELSE ChunkSumsMaxOfFour(rs, w, i + 1,
            ws + rs[i].value * ChunkWeight(w, rs[i].cat),
            ms + 4 * ChunkWeight(w, rs[i].cat))

\* calculateChunkWeightedScore: <<weightedSum, maxSum>> of one page
RECURSIVE ChunkSums(_, _, _, _, _)
ChunkSums(rs, w, i, ws, ms) ==
    IF i > Len(rs) THEN <<ws, ms>>
    ELSE ChunkSums(rs, w, i + 1,
            ws + rs[i].value * ChunkWeight(w, rs[i].cat),
            ms + 5 * ChunkWeight(w, rs[i].cat))

calculateChunkWeightedScore(rs, cats) ==
    ChunkSums(rs, CategoryWeights(cats, 1, <<>>), 1, 0, 0)

\* GetByDateRangePaginated: LIMIT limit OFFSET offset over the range's rows
Page(store, limit, offset) ==
    SubSeq(store, offset + 1,
           IF offset + limit > Len(store) THEN Len(store) ELSE offset + limit)

ChunkOk(id, sums, n) ==
    [id |-> id, err |-> "none", ws |-> sums[1], ms |-> sums[2], count |-> n]
ChunkFailed(id, e) == [id |-> id, err |-> e, ws |-> 0, ms |-> 0, count |-> 0]
NoResult == ChunkFailed(-1, "unset")

OQNone == [status |-> "none", period |-> <<>>, score |-> NA, errs |-> <<>>]
OQError(what, errs) == [status |-> what, period |-> <<>>, score |-> NA, errs |-> errs]
OQScore(range, score) ==
    [status |-> "ok", period |-> FormatDateRange(range[1], range[2]),
     score |-> score, errs |-> <<>>]

OQIdle ==
    /\ oqStore = <<>>
    /\ oqCats = <<>>
    /\ oqRange = <<0, 0>>
    /\ oqPc = "idle"
    /\ oqTotal = 0
    /\ oqLog = <<>>
    /\ oqCancelled = FALSE
    /\ chunks = <<>>
    /\ oqSem = 0
    /\ oqWg = 0
    /\ oqChan = <<>>
    /\ oqChanClosed = FALSE
    /\ oqCloserPc = "unspawned"
    /\ oqAgg = [tw |-> 0, tm |-> 0, errors |-> <<>>]
    /\ oqResult = OQNone

OQFrame == UNCHANGED <<scoreVars, tsVars, calcVars, caVars, cbVars, pcVars>>

\* the caller cancels the context
OQCancel ==
    /\ oqPc \notin {"idle", "done"}
    /\ ~oqCancelled
    /\ oqCancelled' = TRUE
    /\ UNCHANGED <<oqStore, oqCats, oqRange, oqPc, oqTotal, oqLog, chunks, oqSem,
                   oqWg, oqChan, oqChanClosed, oqCloserPc, oqAgg, oqResult>>
    /\ OQFrame

\* mutant of OQCount: no early return when the count is zero
OQCountNoEarlyReturn ==
    /\ oqPc = "count"
    /\ oqLog' = Append(oqLog, "count")
    /\ \/ /\ oqResult' = OQError("countFailed", <<>>)
          /\ oqPc' = "done"
          /\ UNCHANGED oqTotal
       \/ /\ oqTotal' = Len(oqStore)
          /\ oqPc' = "cats" /\ UNCHANGED oqResult
    /\ UNCHANGED <<oqStore, oqCats, oqRange, oqCancelled, chunks, oqSem, oqWg,
                   oqChan, oqChanClosed, oqCloserPc, oqAgg>>
    /\ OQFrame

\* totalCount, err := CountByDateRange(...); the zero-count early return
OQCount ==
    /\ oqPc = "count"
    /\ oqLog' = Append(oqLog, "count")
    /\ \/ /\ oqResult' = OQError("countFailed", <<>>)
          /\ oqPc' = "done"
          /\ UNCHANGED oqTotal
       \/ /\ oqTotal' = Len(oqStore)
          /\ IF Len(oqStore) = 0
             THEN oqResult' = OQScore(oqRange, NA) /\ oqPc' = "done"
             ELSE oqPc' = "cats" /\ UNCHANGED oqResult
    /\ UNCHANGED <<oqStore, oqCats, oqRange, oqCancelled, chunks, oqSem, oqWg,
                   oqChan, oqChanClosed, oqCloserPc, oqAgg>>
    /\ OQFrame

\* categories, err := categoryRepo.GetAll(ctx)
OQLoadCategories ==
    /\ oqPc = "cats"
    /\ oqLog' = Append(oqLog, "cats")
    /\ \/ oqResult' = OQError("categoriesFailed", <<>>) /\ oqPc' = "done"
       \/ oqPc' = "spawn" /\ UNCHANGED oqResult
    /\ UNCHANGED <<oqStore, oqCats, oqRange, oqTotal, oqCancelled, chunks, oqSem,
                   oqWg, oqChan, oqChanClosed, oqCloserPc, oqAgg>>
    /\ OQFrame

\* mutant of OQSpawnChunk: the last work item's limit is not cut to the count
OQSpawnChunkUnclipped ==
    /\ oqPc = "spawn"
    /\ LET i == Len(chunks)
           offset == i * ChunkSize
       IN /\ i < NumChunks(oqTotal)
          /\ chunks' = Append(chunks, [id |-> i, pc |-> "acquire", offset |-> offset,
                                       limit |-> ChunkSize, res |-> NoResult])
    /\ oqWg' = oqWg + 1
    /\ UNCHANGED <<oqStore, oqCats, oqRange, oqPc, oqTotal, oqLog, oqCancelled, oqSem,
                   oqChan, oqChanClosed, oqCloserPc, oqAgg, oqResult>>
    /\ OQFrame

\* one iteration of processChunksConcurrently's loop: build the work item,
\* wg.Add(1), go processChunk
OQSpawnChunk ==
    /\ oqPc = "spawn"
    /\ LET i == Len(chunks)
           offset == i * ChunkSize
           limit == IF offset + ChunkSize > oqTotal THEN oqTotal - offset ELSE ChunkSize
       IN /\ i < NumChunks(oqTotal)
          /\ chunks' = Append(chunks, [id |-> i, pc |-> "acquire", offset |-> offset,
                                       limit |-> limit, res |-> NoResult])
    /\ oqWg' = oqWg + 1
    /\ UNCHANGED <<oqStore, oqCats, oqRange, oqPc, oqTotal, oqLog, oqCancelled, oqSem,
                   oqChan, oqChanClosed, oqCloserPc, oqAgg, oqResult>>
    /\ OQFrame

\* after the loop: go func() { wg.Wait(); close(resultChan) }(), then aggregate
OQStartCloser ==
    /\ oqPc = "spawn"
    /\ Len(chunks) = NumChunks(oqTotal)
    /\ oqCloserPc' = "wait"
    /\ oqPc' = "aggregate"
    /\ UNCHANGED <<oqStore, oqCats, oqRange, oqTotal, oqLog, oqCancelled, chunks, oqSem,
                   oqWg, oqChan, oqChanClosed, oqAgg, oqResult>>
    /\ OQFrame

\* mutant of OQCloser: resultChan is closed without waiting for the tasks
OQCloserNoWait ==
    /\ oqCloserPc = "wait"
    /\ oqChanClosed' = TRUE
    /\ oqCloserPc' = "done"
    /\ UNCHANGED <<oqStore, oqCats, oqRange, oqPc, oqTotal, oqLog, oqCancelled, chunks,
                   oqSem, oqWg, oqChan, oqAgg, oqResult>>
    /\ OQFrame

\* wg.Wait() returns, close(resultChan)
OQCloser ==
    /\ oqCloserPc = "wait"
    /\ oqWg = 0
    /\ oqChanClosed' = TRUE
    /\ oqCloserPc' = "done"
    /\ UNCHANGED <<oqStore, oqCats, oqRange, oqPc, oqTotal, oqLog, oqCancelled, chunks,
                   oqSem, oqWg, oqChan, oqAgg, oqResult>>
    /\ OQFrame

ChunkIds == DOMAIN chunks

\* mutant of ChunkAcquire: the send on the semaphore never blocks
ChunkAcquireUnbounded(k) ==
    /\ chunks[k].pc = "acquire"
    /\ oqSem' = oqSem + 1
    /\ chunks' = [chunks EXCEPT ![k].pc = "fetch"]
    /\ UNCHANGED <<oqStore, oqCats, oqRange, oqPc, oqTotal, oqLog, oqCancelled, oqWg,
                   oqChan, oqChanClosed, oqCloserPc, oqAgg, oqResult>>
    /\ OQFrame

\* select { case semaphore <- struct{}{}: ... }
ChunkAcquire(k) ==
    /\ chunks[k].pc = "acquire"
    /\ oqSem < MaxGoroutines
    /\ oqSem' = oqSem + 1
    /\ chunks' = [chunks EXCEPT ![k].pc = "fetch"]
    /\ UNCHANGED <<oqStore, oqCats, oqRange, oqPc, oqTotal, oqLog, oqCancelled, oqWg,
                   oqChan, oqChanClosed, oqCloserPc, oqAgg, oqResult>>
    /\ OQFrame

\* select { ... case <-ctx.Done(): resultChan <- ChunkResult{Error: ctx.Err()}; return }
ChunkCancelled(k) ==
    /\ chunks[k].pc = "acquire"
    /\ oqCancelled
    /\ Len(oqChan) < NumChunks(oqTotal)
    /\ oqChan' = Append(oqChan, ChunkFailed(chunks[k].id, "cancelled"))
    /\ chunks' = [chunks EXCEPT ![k].pc = "wgdone",
                                ![k].res = ChunkFailed(chunks[k].id, "cancelled")]
    /\ UNCHANGED <<oqStore, oqCats, oqRange, oqPc, oqTotal, oqLog, oqCancelled, oqSem,
                   oqWg, oqChanClosed, oqCloserPc, oqAgg, oqResult>>
    /\ OQFrame

\* ratings, err := GetByDateRangePaginated(...); on success the local sums
ChunkFetch(k) ==
    /\ chunks[k].pc = "fetch"
    /\ oqLog' = Append(oqLog, "page")
    /\ \/ chunks' = [chunks EXCEPT ![k].pc = "send",
                                   ![k].res = ChunkFailed(chunks[k].id, "fetchFailed")]
       \/ LET page == Page(oqStore, chunks[k].limit, chunks[k].offset)
          IN chunks' = [chunks EXCEPT
                 ![k].pc = "send",
                 ![k].res = ChunkOk(chunks[k].id,
                                    calculateChunkWeightedScore(page, oqCats), Len(page))]
    /\ UNCHANGED <<oqStore, oqCats, oqRange, oqPc, oqTotal, oqCancelled, oqSem, oqWg,
                   oqChan, oqChanClosed, oqCloserPc, oqAgg, oqResult>>
    /\ OQFrame

\* resultChan <- ChunkResult{...} (blocks while the buffer is full)
ChunkSend(k) ==
    /\ chunks[k].pc = "send"
    /\ Len(oqChan) < NumChunks(oqTotal)
    /\ oqChan' = Append(oqChan, chunks[k].res)
    /\ chunks' = [chunks EXCEPT ![k].pc = "release"]
    /\ UNCHANGED <<oqStore, oqCats, oqRange, oqPc, oqTotal, oqLog, oqCancelled, oqSem,
                   oqWg, oqChanClosed, oqCloserPc, oqAgg, oqResult>>
    /\ OQFrame

\* mutant of ChunkRelease: the permit is not given back
ChunkReleaseKeepsPermit(k) ==
    /\ chunks[k].pc = "release"
    /\ chunks' = [chunks EXCEPT ![k].pc = "wgdone"]
    /\ UNCHANGED <<oqStore, oqCats, oqRange, oqPc, oqTotal, oqLog, oqCancelled, oqSem,
                   oqWg, oqChan, oqChanClosed, oqCloserPc, oqAgg, oqResult>>
    /\ OQFrame

\* deferred: <-semaphore
ChunkRelease(k) ==
    /\ chunks[k].pc = "release"
    /\ oqSem' = oqSem - 1
    /\ chunks' = [chunks EXCEPT ![k].pc = "wgdone"]
    /\ UNCHANGED <<oqStore, oqCats, oqRange, oqPc, oqTotal, oqLog, oqCancelled, oqWg,
                   oqChan, oqChanClosed, oqCloserPc, oqAgg, oqResult>>
    /\ OQFrame

\* deferred: wg.Done()
ChunkWgDone(k) ==
    /\ chunks[k].pc = "wgdone"
    /\ oqWg' = oqWg - 1
    /\ chunks' = [chunks EXCEPT ![k].pc = "exit"]
    /\ UNCHANGED <<oqStore, oqCats, oqRange, oqPc, oqTotal, oqLog, oqCancelled, oqSem,
                   oqChan, oqChanClosed, oqCloserPc, oqAgg, oqResult>>
    /\ OQFrame

\* mutant of AggregateStep: a failed chunk is skipped without being recorded
AggregateStepDropsError(agg, r) ==
    IF r.err # "none" THEN agg
    ELSE [agg EXCEPT !.tw = agg.tw + r.ws, !.tm = agg.tm + r.ms]

\* mutant of AggregateStep: the maximum sum is assigned, not accumulated
AggregateStepOverwritesMax(agg, r) ==
    IF r.err # "none"
    THEN [agg EXCEPT !.errors = Append(agg.errors, <<r.id, r.err>>)]
    ELSE [agg EXCEPT !.tw = agg.tw + r.ws, !.tm = r.ms]

\* the body of aggregateChunkResults' loop for one received result
AggregateStep(agg, r) ==
    IF r.err # "none"
    THEN [agg EXCEPT !.errors = Append(agg.errors, <<r.id, r.err>>)]
    ELSE [agg EXCEPT !.tw = agg.tw + r.ws, !.tm = agg.tm + r.ms]

\* for result := range resultChan { ... }: one receive
OQAggregateReceive ==
    /\ oqPc = "aggregate"
    /\ oqChan # <<>>
    /\ oqAgg' = AggregateStep(oqAgg, Head(oqChan))
    /\ oqChan' = Tail(oqChan)
    /\ UNCHANGED <<oqStore, oqCats, oqRange, oqPc, oqTotal, oqLog, oqCancelled, chunks,
                   oqSem, oqWg, oqChanClosed, oqCloserPc, oqResult>>
    /\ OQFrame

\* mutant of AggregateFinal: a zero maximum sum is an error, as in CalculateScore
AggregateFinalFailsOnZeroMax(agg) ==
    IF Len(agg.errors) > 0 \/ agg.tm <= 0 THEN [err |-> TRUE, score |-> <<0, 1>>]
    ELSE [err |-> FALSE, score |-> Frac(100 * agg.tw, agg.tm)]

\* aggregateChunkResults after the loop: the errors, or the final percentage
AggregateFinal(agg) ==
    IF Len(agg.errors) > 0 THEN [err |-> TRUE, score |-> <<0, 1>>]
    ELSE IF agg.tm > 0 THEN [err |-> FALSE, score |-> Frac(100 * agg.tw, agg.tm)]
    ELSE [err |-> FALSE, score |-> <<0, 1>>]

\* the range loop ends (channel closed and drained); GetOverallQualityScore returns
OQAggregateFinish ==
    /\ oqPc = "aggregate"
    /\ oqChan = <<>>
    /\ oqChanClosed
    /\ LET f == AggregateFinal(oqAgg)
       IN oqResult' = IF f.err THEN OQError("chunksFailed", oqAgg.errors)
                      ELSE OQScore(oqRange, FormatScore(f.score))
    /\ oqPc' = "done"
    /\ UNCHANGED <<oqStore, oqCats, oqRange, oqTotal, oqLog, oqCancelled, chunks, oqSem,
                   oqWg, oqChan, oqChanClosed, oqCloserPc, oqAgg>>
    /\ OQFrame

NextOQ ==
    \/ OQCancel
    \/ OQCount
    \/ OQLoadCategories
    \/ OQSpawnChunk
    \/ OQStartCloser
    \/ OQCloser
    \/ \E k \in ChunkIds : ChunkAcquire(k)
    \/ \E k \in ChunkIds : ChunkCancelled(k)
    \/ \E k \in ChunkIds : ChunkFetch(k)
    \/ \E k \in ChunkIds : ChunkSend(k)
    \/ \E k \in ChunkIds : ChunkRelease(k)
    \/ \E k \in ChunkIds : ChunkWgDone(k)
    \/ OQAggregateReceive
    \/ OQAggregateFinish

----------------------------------------------------------------------------
(* TicketScoresService.GetTicketScores and TicketScoresServer.GetTicketScores *)

\* the capacities of semaphore, resultChan and errorChan, the first two scaled down
TicketPermits == 1
ResultCap == 1
ErrorCap == 1
\* the largest number of distinct tickets in a range
MaxTickets == 2

TSIdle ==
    /\ tsTickets = {}
    /\ tsPc = "idle"
    /\ tasks = <<>>
    /\ tsSem = 0
    /\ tsWg = 0
    /\ tsResChan = <<>>
    /\ tsResClosed = FALSE
    /\ tsErrChan = <<>>
    /\ tsErrClosed = FALSE
    /\ tsCancelled = FALSE
    /\ tsCallerCancelled = FALSE
    /\ tsFetchFailed = FALSE
    /\ tsRpc = "idle"
    /\ tsDelivered = <<>>

TSFrame == UNCHANGED <<scoreVars, oqVars, calcVars, caVars, cbVars, pcVars>>

\* the client cancels the RPC: stream.Context() is done
TSCallerCancel ==
    /\ tsRpc = "running"
    /\ ~tsCancelled
    /\ tsCancelled' = TRUE
    /\ tsCallerCancelled' = TRUE
    /\ UNCHANGED <<tsTickets, tsPc, tasks, tsSem, tsWg, tsResChan, tsResClosed,
                   tsErrChan, tsErrClosed, tsFetchFailed, tsRpc, tsDelivered>>
    /\ TSFrame

\* ticketIDs, err := GetDistinctTicketIDsByDateRange(...); on failure the error
\* goes to errorChan (empty, capacity 1) and the goroutine returns
TSFetchTicketIDs ==
    /\ tsPc = "fetchIDs"
    /\ \/ /\ tsErrChan' = Append(tsErrChan, "ticketIDs")
          /\ tsFetchFailed' = TRUE
          /\ tsPc' = "closeErr"
       \/ /\ tsPc' = "fetchCats"
          /\ UNCHANGED <<tsErrChan, tsFetchFailed>>
    /\ UNCHANGED <<tsTickets, tasks, tsSem, tsWg, tsResChan, tsResClosed, tsErrClosed,
                   tsCancelled, tsCallerCancelled, tsRpc, tsDelivered>>
    /\ TSFrame

\* categories, err := categoryRepo.GetAll(ctx)
TSFetchCategories ==
    /\ tsPc = "fetchCats"
    /\ \/ /\ tsErrChan' = Append(tsErrChan, "categories")
          /\ tsFetchFailed' = TRUE
          /\ tsPc' = "closeErr"
       \/ /\ tsPc' = "spawn"
          /\ UNCHANGED <<tsErrChan, tsFetchFailed>>
    /\ UNCHANGED <<tsTickets, tasks, tsSem, tsWg, tsResChan, tsResClosed, tsErrClosed,
                   tsCancelled, tsCallerCancelled, tsRpc, tsDelivered>>
    /\ TSFrame

\* one iteration of "for _, ticketID := range ticketIDs": wg.Add(1); go func(tID)
TSSpawnTask ==
    /\ tsPc = "spawn"
    /\ \E t \in tsTickets \ DOMAIN tasks :
          /\ \A u \in tsTickets \ DOMAIN tasks : t <= u
          /\ tasks' = [x \in DOMAIN tasks \cup {t} |->
                          IF x = t THEN [pc |-> "acquire", failed |-> FALSE] ELSE tasks[x]]
    /\ tsWg' = tsWg + 1
    /\ UNCHANGED <<tsTickets, tsPc, tsSem, tsResChan, tsResClosed, tsErrChan, tsErrClosed,
                   tsCancelled, tsCallerCancelled, tsFetchFailed, tsRpc, tsDelivered>>
    /\ TSFrame

\* the loop is over: wg.Wait()
TSWait ==
    /\ tsPc = "spawn"
    /\ DOMAIN tasks = tsTickets
    /\ tsPc' = "wait"
    /\ UNCHANGED <<tsTickets, tasks, tsSem, tsWg, tsResChan, tsResClosed, tsErrChan,
                   tsErrClosed, tsCancelled, tsCallerCancelled, tsFetchFailed, tsRpc,
                   tsDelivered>>
    /\ TSFrame

\* mutant of TSWaitDone: the producer goes on to its deferred closes without
\* waiting for the ticket tasks
TSWaitDoneNoWait ==
    /\ tsPc = "wait"
    /\ tsPc' = "closeErr"
    /\ UNCHANGED <<tsTickets, tasks, tsSem, tsWg, tsResChan, tsResClosed, tsErrChan,
                   tsErrClosed, tsCancelled, tsCallerCancelled, tsFetchFailed, tsRpc,
                   tsDelivered>>
    /\ TSFrame

\* wg.Wait() returns
TSWaitDone ==
    /\ tsPc = "wait"
    /\ tsWg = 0
    /\ tsPc' = "closeErr"
    /\ UNCHANGED <<tsTickets, tasks, tsSem, tsWg, tsResChan, tsResClosed, tsErrChan,
                   tsErrClosed, tsCancelled, tsCallerCancelled, tsFetchFailed, tsRpc,
                   tsDelivered>>
    /\ TSFrame

\* deferred (registered last, run first): close(errorChan)
TSCloseErrorChan ==
    /\ tsPc = "closeErr"
    /\ tsErrClosed' = TRUE
    /\ tsPc' = "closeRes"
    /\ UNCHANGED <<tsTickets, tasks, tsSem, tsWg, tsResChan, tsResClosed, tsErrChan,
                   tsCancelled, tsCallerCancelled, tsFetchFailed, tsRpc, tsDelivered>>
    /\ TSFrame

\* deferred: close(resultChan)
TSCloseResultChan ==
    /\ tsPc = "closeRes"
    /\ tsResClosed' = TRUE
    /\ tsPc' = "done"
    /\ UNCHANGED <<tsTickets, tasks, tsSem, tsWg, tsResChan, tsErrChan, tsErrClosed,
                   tsCancelled, tsCallerCancelled, tsFetchFailed, tsRpc, tsDelivered>>
    /\ TSFrame

TaskIds == DOMAIN tasks

\* mutant of TaskAcquire: the send on the semaphore never blocks
TaskAcquireUnbounded(t) ==
    /\ tasks[t].pc = "acquire"
    /\ tsSem' = tsSem + 1
    /\ tasks' = [tasks EXCEPT ![t].pc = "calc"]
    /\ UNCHANGED <<tsTickets, tsPc, tsWg, tsResChan, tsResClosed, tsErrChan, tsErrClosed,
                   tsCancelled, tsCallerCancelled, tsFetchFailed, tsRpc, tsDelivered>>
    /\ TSFrame

\* semaphore <- struct{}{}
TaskAcquire(t) ==
    /\ tasks[t].pc = "acquire"
    /\ tsSem < TicketPermits
    /\ tsSem' = tsSem + 1
    /\ tasks' = [tasks EXCEPT ![t].pc = "calc"]
    /\ UNCHANGED <<tsTickets, tsPc, tsWg, tsResChan, tsResClosed, tsErrChan, tsErrClosed,
                   tsCancelled, tsCallerCancelled, tsFetchFailed, tsRpc, tsDelivered>>
    /\ TSFrame

\* ticketScore, err := s.calculateTicketScore(ctx, tID, categories): an error
\* exactly when a per-category rating fetch of the ticket failed
TaskCalculate(t) ==
    /\ tasks[t].pc = "calc"
    /\ \/ /\ tasks' = [tasks EXCEPT ![t].pc = "sendErr", ![t].failed = TRUE]
          /\ tsFetchFailed' = TRUE
       \/ /\ tasks' = [tasks EXCEPT ![t].pc = "sendRes"]
          /\ UNCHANGED tsFetchFailed
    /\ UNCHANGED <<tsTickets, tsPc, tsSem, tsWg, tsResChan, tsResClosed, tsErrChan,
                   tsErrClosed, tsCancelled, tsCallerCancelled, tsRpc, tsDelivered>>
    /\ TSFrame

\* select { case errorChan <- fmt.Errorf(...): ; case <-ctx.Done(): }; return
TaskSendError(t) ==
    /\ tasks[t].pc = "sendErr"
    /\ \/ /\ Len(tsErrChan) < ErrorCap
          /\ tsErrChan' = Append(tsErrChan, t)
       \/ /\ tsCancelled
          /\ UNCHANGED tsErrChan
    /\ tasks' = [tasks EXCEPT ![t].pc = "release"]
    /\ UNCHANGED <<tsTickets, tsPc, tsSem, tsWg, tsResChan, tsResClosed, tsErrClosed,
                   tsCancelled, tsCallerCancelled, tsFetchFailed, tsRpc, tsDelivered>>
    /\ TSFrame

\* mutant of TaskSendResult: a non-blocking send that drops the record when
\* the buffer is full
TaskSendResultDropsWhenFull(t) ==
    /\ tasks[t].pc = "sendRes"
    /\ tsResChan' = IF Len(tsResChan) < ResultCap THEN Append(tsResChan, t) ELSE tsResChan
    /\ tasks' = [tasks EXCEPT ![t].pc = "release"]
    /\ UNCHANGED <<tsTickets, tsPc, tsSem, tsWg, tsResClosed, tsErrChan, tsErrClosed,
                   tsCancelled, tsCallerCancelled, tsFetchFailed, tsRpc, tsDelivered>>
    /\ TSFrame

\* mutant of TaskSendResult: a plain blocking send, no cancellation watch
TaskSendResultNoCancelWatch(t) ==
    /\ tasks[t].pc = "sendRes"
    /\ Len(tsResChan) < ResultCap
    /\ tsResChan' = Append(tsResChan, t)
    /\ tasks' = [tasks EXCEPT ![t].pc = "release"]
    /\ UNCHANGED <<tsTickets, tsPc, tsSem, tsWg, tsResClosed, tsErrChan, tsErrClosed,
                   tsCancelled, tsCallerCancelled, tsFetchFailed, tsRpc, tsDelivered>>
    /\ TSFrame

\* select { case resultChan <- ticketScore: ; case <-ctx.Done(): return }
TaskSendResult(t) ==
    /\ tasks[t].pc = "sendRes"
    /\ \/ /\ Len(tsResChan) < ResultCap
          /\ tsResChan' = Append(tsResChan, t)
       \/ /\ tsCancelled
          /\ UNCHANGED tsResChan
    /\ tasks' = [tasks EXCEPT ![t].pc = "release"]
    /\ UNCHANGED <<tsTickets, tsPc, tsSem, tsWg, tsResClosed, tsErrChan, tsErrClosed,
                   tsCancelled, tsCallerCancelled, tsFetchFailed, tsRpc, tsDelivered>>
    /\ TSFrame

\* deferred: <-semaphore
TaskRelease(t) ==
    /\ tasks[t].pc = "release"
    /\ tsSem' = tsSem - 1
    /\ tasks' = [tasks EXCEPT ![t].pc = "wgdone"]
    /\ UNCHANGED <<tsTickets, tsPc, tsWg, tsResChan, tsResClosed, tsErrChan, tsErrClosed,
                   tsCancelled, tsCallerCancelled, tsFetchFailed, tsRpc, tsDelivered>>
    /\ TSFrame

\* deferred: wg.Done()
TaskWgDone(t) ==
    /\ tasks[t].pc = "wgdone"
    /\ tsWg' = tsWg - 1
    /\ tasks' = [tasks EXCEPT ![t].pc = "exit"]
    /\ UNCHANGED <<tsTickets, tsPc, tsSem, tsResChan, tsResClosed, tsErrChan, tsErrClosed,
                   tsCancelled, tsCallerCancelled, tsFetchFailed, tsRpc, tsDelivered>>
    /\ TSFrame

\* The handler's select loop.  A case is ready when its channel has a value or
\* is closed; select picks any ready case.  When the handler returns, gRPC
\* cancels the stream's context.

\* case ticketScore, ok := <-ticketScores with ok: stream.Send succeeds or fails
ServerReceiveResult ==
    /\ tsRpc = "running"
    /\ tsResChan # <<>>
    /\ tsResChan' = Tail(tsResChan)
    /\ \/ /\ tsDelivered' = [tsDelivered EXCEPT ![Head(tsResChan)] = @ + 1]
          /\ UNCHANGED <<tsRpc, tsCancelled>>
       \/ /\ tsRpc' = "sendFailed"
          /\ tsCancelled' = TRUE
          /\ UNCHANGED tsDelivered
    /\ UNCHANGED <<tsTickets, tsPc, tasks, tsSem, tsWg, tsResClosed, tsErrChan,
                   tsErrClosed, tsCallerCancelled, tsFetchFailed>>
    /\ TSFrame

\* case ticketScore, ok := <-ticketScores with !ok: return nil
ServerResultClosed ==
    /\ tsRpc = "running"
    /\ tsResChan = <<>>
    /\ tsResClosed
    /\ tsRpc' = "ok"
    /\ tsCancelled' = TRUE
    /\ UNCHANGED <<tsTickets, tsPc, tasks, tsSem, tsWg, tsResChan, tsResClosed, tsErrChan,
                   tsErrClosed, tsCallerCancelled, tsFetchFailed, tsDelivered>>
    /\ TSFrame

\* case err := <-errorChan with err != nil: return status Internal
\* (a receive from the closed, empty errorChan yields nil and the loop goes on)
ServerReceiveError ==
    /\ tsRpc = "running"
    /\ tsErrChan # <<>>
    /\ tsErrChan' = Tail(tsErrChan)
    /\ tsRpc' = "internal"
    /\ tsCancelled' = TRUE
    /\ UNCHANGED <<tsTickets, tsPc, tasks, tsSem, tsWg, tsResChan, tsResClosed,
                   tsErrClosed, tsCallerCancelled, tsFetchFailed, tsDelivered>>
    /\ TSFrame

\* case <-ctx.Done(): return status Canceled
ServerContextDone ==
    /\ tsRpc = "running"
    /\ tsCancelled
    /\ tsRpc' = "canceled"
    /\ UNCHANGED <<tsTickets, tsPc, tasks, tsSem, tsWg, tsResChan, tsResClosed, tsErrChan,
                   tsErrClosed, tsCancelled, tsCallerCancelled, tsFetchFailed,
                   tsDelivered>>
    /\ TSFrame

TSProducer ==
    \/ TSFetchTicketIDs
    \/ TSFetchCategories
    \/ TSSpawnTask
    \/ TSWait
    \/ TSWaitDone
    \/ TSCloseErrorChan
    \/ TSCloseResultChan

TSTask(t) ==
    \/ TaskAcquire(t)
    \/ TaskCalculate(t)
    \/ TaskSendError(t)
    \/ TaskSendResult(t)
    \/ TaskRelease(t)
    \/ TaskWgDone(t)

TSServer ==
    \/ ServerReceiveResult
    \/ ServerResultClosed
    \/ ServerReceiveError
    \/ ServerContextDone

NextTS ==
    \/ TSCallerCancel
    \/ TSFetchTicketIDs
    \/ TSFetchCategories
    \/ TSSpawnTask
    \/ TSWait
    \/ TSWaitDone
    \/ TSCloseErrorChan
    \/ TSCloseResultChan
    \/ \E t \in TaskIds : TaskAcquire(t)
    \/ \E t \in TaskIds : TaskCalculate(t)
    \/ \E t \in TaskIds : TaskSendError(t)
    \/ \E t \in TaskIds : TaskSendResult(t)
    \/ \E t \in TaskIds : TaskRelease(t)
    \/ \E t \in TaskIds : TaskWgDone(t)
    \/ ServerReceiveResult
    \/ ServerResultClosed
    \/ ServerReceiveError
    \/ ServerContextDone

----------------------------------------------------------------------------
(* TicketScoresService.calculateTicketScore                                *)

\* service.formatScore: fmt.Sprintf("%.0f%%", score)
formatScore(f) == Pct(RoundHalfEven(f))

\* the category store's rows, in its order (distinct ids)
CalcBaseCategories ==
    << [id |-> 1, weight |-> 1], [id |-> 2, weight |-> 0], [id |-> 3, weight |-> 2],
       [id |-> 4, weight |-> 1] >>
CalcCategoryLists == {SubSeq(CalcBaseCategories, 1, n) : n \in 0..MaxCats}
\* what GetByTicketIDAndCategoryID may hold for the ticket in category c
CalcRatingLists(c) ==
    { <<>>,
      << [cat |-> c, value |-> 3], [cat |-> c, value |-> 4] >>,
      << [cat |-> c, value |-> 6] >> }

CatResult(name, score, err) == [name |-> name, score |-> score, err |-> err]
CalcNone == [status |-> "none", categories |-> <<>>]

CalcIdle ==
    /\ calcCats = <<>>
    /\ calcRatings = <<>>
    /\ calcPc = "idle"
    /\ catTasks = <<>>
    /\ calcWg = 0
    /\ calcChan = <<>>
    /\ calcChanClosed = FALSE
    /\ calcCloserPc = "unspawned"
    /\ calcOut = <<>>
    /\ calcResult = CalcNone

CalcFrame == UNCHANGED <<scoreVars, oqVars, tsVars, caVars, cbVars, pcVars>>

\* one iteration of "for _, category := range categories": wg.Add(1); go func(cat)
CalcSpawn ==
    /\ calcPc = "spawn"
    /\ Len(catTasks) < Len(calcCats)
    /\ catTasks' = Append(catTasks, [pc |-> "fetch", res |-> CatResult(0, NA, FALSE)])
    /\ calcWg' = calcWg + 1
    /\ UNCHANGED <<calcCats, calcRatings, calcPc, calcChan, calcChanClosed, calcCloserPc,
                   calcOut, calcResult>>
    /\ CalcFrame

\* after the loop: go func() { wg.Wait(); close(resultChan) }(), then collect
CalcStartCloser ==
    /\ calcPc = "spawn"
    /\ Len(catTasks) = Len(calcCats)
    /\ calcCloserPc' = "wait"
    /\ calcPc' = "collect"
    /\ UNCHANGED <<calcCats, calcRatings, catTasks, calcWg, calcChan, calcChanClosed,
                   calcOut, calcResult>>
    /\ CalcFrame

\* wg.Wait() returns, close(resultChan)
CalcCloser ==
    /\ calcCloserPc = "wait"
    /\ calcWg = 0
    /\ calcChanClosed' = TRUE
    /\ calcCloserPc' = "done"
    /\ UNCHANGED <<calcCats, calcRatings, calcPc, catTasks, calcWg, calcChan, calcOut,
                   calcResult>>
    /\ CalcFrame

\* mutant of CategoryScore: a failed CalculateScore is reported as "0%"
CategoryScoreZeroOnError(rs, cat) ==
    IF Len(rs) = 0 THEN NA
    ELSE LET r == CalculateScore(rs, <<cat>>)
         IN IF r.err # "none" THEN Pct(0) ELSE formatScore(r.score)

\* the category's score string: "N/A" without ratings or when CalculateScore fails
CategoryScore(rs, cat) ==
    IF Len(rs) = 0 THEN NA
    ELSE LET r == CalculateScore(rs, <<cat>>)
         IN IF r.err # "none" THEN NA ELSE formatScore(r.score)

\* ratings, err := GetByTicketIDAndCategoryID(ctx, ticketID, cat.ID) and the
\* categoryResult this goroutine will send
CatFetch(i) ==
    /\ catTasks[i].pc = "fetch"
    /\ \/ catTasks' = [catTasks EXCEPT ![i].pc = "send",
                                       ![i].res = CatResult(calcCats[i].id, NA, TRUE)]
       \/ catTasks' = [catTasks EXCEPT
              ![i].pc = "send",
              ![i].res = CatResult(calcCats[i].id,
                                   CategoryScore(calcRatings[i], calcCats[i]), FALSE)]
    /\ UNCHANGED <<calcCats, calcRatings, calcPc, calcWg, calcChan, calcChanClosed,
                   calcCloserPc, calcOut, calcResult>>
    /\ CalcFrame

\* resultChan <- categoryResult{...} (buffer of len(categories))
CatSend(i) ==
    /\ catTasks[i].pc = "send"
    /\ Len(calcChan) < Len(calcCats)
    /\ calcChan' = Append(calcChan, catTasks[i].res)
    /\ catTasks' = [catTasks EXCEPT ![i].pc = "wgdone"]
    /\ UNCHANGED <<calcCats, calcRatings, calcPc, calcWg, calcChanClosed, calcCloserPc,
                   calcOut, calcResult>>
    /\ CalcFrame

\* deferred: wg.Done()
CatWgDone(i) ==
    /\ catTasks[i].pc = "wgdone"
    /\ calcWg' = calcWg - 1
    /\ catTasks' = [catTasks EXCEPT ![i].pc = "exit"]
    /\ UNCHANGED <<calcCats, calcRatings, calcPc, calcChan, calcChanClosed, calcCloserPc,
                   calcOut, calcResult>>
    /\ CalcFrame

\* mutant of CollectAppend: a category without a numeric score is left out
CollectAppendSkipsNA(out, r) ==
    IF r.score = NA THEN out ELSE Append(out, [name |-> r.name, score |-> r.score])

\* ticketScore.Categories = append(ticketScore.Categories, ...)
CollectAppend(out, r) == Append(out, [name |-> r.name, score |-> r.score])

\* for result := range resultChan: one receive; an error result returns at once
CalcCollectReceive ==
    /\ calcPc = "collect"
    /\ calcChan # <<>>
    /\ calcChan' = Tail(calcChan)
    /\ IF Head(calcChan).err
       THEN /\ calcResult' = [status |-> "err", categories |-> calcOut]
            /\ calcPc' = "done"
            /\ UNCHANGED calcOut
       ELSE /\ calcOut' = CollectAppend(calcOut, Head(calcChan))
            /\ UNCHANGED <<calcPc, calcResult>>
    /\ UNCHANGED <<calcCats, calcRatings, catTasks, calcWg, calcChanClosed, calcCloserPc>>
    /\ CalcFrame

\* the range loop ends: return ticketScore, nil
CalcCollectFinish ==
    /\ calcPc = "collect"
    /\ calcChan = <<>>
    /\ calcChanClosed
    /\ calcResult' = [status |-> "ok", categories |-> calcOut]
    /\ calcPc' = "done"
    /\ UNCHANGED <<calcCats, calcRatings, catTasks, calcWg, calcChan, calcChanClosed,
                   calcCloserPc, calcOut>>
    /\ CalcFrame

CatTaskIds == DOMAIN catTasks

NextCalc ==
    \/ CalcSpawn
    \/ CalcStartCloser
    \/ CalcCloser
    \/ \E i \in CatTaskIds : CatFetch(i)
    \/ \E i \in CatTaskIds : CatSend(i)
    \/ \E i \in CatTaskIds : CatWgDone(i)
    \/ CalcCollectReceive
    \/ CalcCollectFinish

----------------------------------------------------------------------------
(* RatingAnalyticsService.GetCategoryAnalytics                             *)

\* the longest requested range, in days between startDate and endDate
MaxSpan == 37
\* the earliest startDate: the seven days of one week (day 0 is a Monday)
FirstStart == 7
StartDays == FirstStart..(FirstStart + 6)

CAStores == {"clean", "dirty"}

\* the ratings the store holds for category c on day d (created_at within the
\* day); the dirty store also holds out-of-range values
RatingsOn(store, c, d) ==
    LET base == CASE (d + c) % 3 = 0 -> <<>>
                  [] (d + c) % 3 = 1 -> << [cat |-> c, value |-> (2 * d + c) % 6, day |-> d] >>
                  [] OTHER -> << [cat |-> c, value |-> d % 6, day |-> d],
                                 [cat |-> c, value |-> (d + 3) % 6, day |-> d] >>
    IN IF store = "dirty" /\ d % 11 = 5
       THEN Append(base, [cat |-> c, value |-> 6, day |-> d])
       ELSE base

\* time.Weekday of a day number: Sunday = 0 ... Saturday = 6
Weekday(d) == (d + 1) % 7

\* mutant of shouldUseWeeklyAggregation: 30 days already count as long
shouldUseWeeklyAggregationFrom30(s, e) == (e - s) * 24 >= 30 * 24

\* duration := endDate.Sub(startDate); duration > 30*24*time.Hour (in hours)
shouldUseWeeklyAggregation(s, e) == (e - s) * 24 > 30 * 24

\* mutant of getWeekStart: Sunday is not moved to the end of the week
getWeekStartFromSunday(d) == d - (Weekday(d) - 1)

\* getWeekStart: the Monday on or before the date
getWeekStart(d) ==
    LET weekday == IF Weekday(d) = 0 THEN 7 ELSE Weekday(d)
    IN d - (weekday - 1)

DailyScoreRec(label, score) == [date |-> label, score |-> score]

\* mutant of calculatePeriodScore: the error of CalculateScore is ignored and
\* the zero score it returns with it is formatted
calculatePeriodScoreIgnoresError(rs, cat, label) ==
    IF Len(rs) = 0 THEN DailyScoreRec(label, NA)
    ELSE DailyScoreRec(label, formatScore(CalculateScore(rs, <<cat>>).score))

\* calculateDailyScore and calculatePeriodScore (the same body)
calculatePeriodScore(rs, cat, label) ==
    IF Len(rs) = 0 THEN DailyScoreRec(label, NA)
    ELSE LET r == CalculateScore(rs, <<cat>>)
         IN IF r.err # "none" THEN DailyScoreRec(label, NA)
            ELSE DailyScoreRec(label, formatScore(r.score))

calculateOverallScore(total, cat) ==
    IF Len(total) = 0 THEN NA
    ELSE LET r == CalculateScore(total, <<cat>>)
         IN IF r.err # "none" THEN NA ELSE formatScore(r.score)

ScoresAcc(err, scores, total, fetched) ==
    [err |-> err, scores |-> scores, total |-> total, fetched |-> fetched]

\* mutant of calculateDailyScores: each day is scored over totalRatings so far
RECURSIVE calculateDailyScoresCumulative(_, _, _, _, _, _)
calculateDailyScoresCumulative(store, cat, cur, e, fail, acc) ==
    IF cur > e \/ acc.err THEN acc
    ELSE IF cur < e
    THEN LET mid == (cur + e) \div 2
         IN calculateDailyScoresCumulative(store, cat, mid + 1, e, fail,
               calculateDailyScoresCumulative(store, cat, cur, mid, fail, acc))
    ELSE IF cur = fail
    THEN ScoresAcc(TRUE, <<>>, <<>>, acc.fetched \cup {cur})
    ELSE LET rs == RatingsOn(store, cat.id, cur)
         IN ScoresAcc(FALSE,
                      Append(acc.scores, calculatePeriodScore(acc.total \o rs, cat, <<cur>>)),
                      acc.total \o rs, acc.fetched \cup {cur})

\* calculateDailyScores: the loop from currentDate; fail is the day whose
\* fetch fails (-1: none).  The iterations over cur..e are taken as those of
\* the first half of the days followed by those of the rest; an error ends
\* the loop
RECURSIVE calculateDailyScores(_, _, _, _, _, _)
calculateDailyScores(store, cat, cur, e, fail, acc) ==
    IF cur > e \/ acc.err THEN acc
    ELSE IF cur < e
    THEN LET mid == (cur + e) \div 2
         IN calculateDailyScores(store, cat, mid + 1, e, fail,
               calculateDailyScores(store, cat, cur, mid, fail, acc))
    ELSE IF cur = fail
    THEN ScoresAcc(TRUE, <<>>, <<>>, acc.fetched \cup {cur})
    ELSE LET rs == RatingsOn(store, cat.id, cur)
         IN ScoresAcc(FALSE, Append(acc.scores, calculatePeriodScore(rs, cat, <<cur>>)),
                      acc.total \o rs, acc.fetched \cup {cur})

\* getRatingsForDateRange: the per-day fetches of one week bucket, the days
\* cur..e taken as the first half of them followed by the rest
RECURSIVE getRatingsForDateRange(_, _, _, _, _, _)
getRatingsForDateRange(store, c, cur, e, fail, acc) ==
    IF cur > e \/ acc.err THEN acc
    ELSE IF cur < e
    THEN LET mid == (cur + e) \div 2
         IN getRatingsForDateRange(store, c, mid + 1, e, fail,
               getRatingsForDateRange(store, c, cur, mid, fail, acc))
    ELSE IF cur = fail
    THEN ScoresAcc(TRUE, <<>>, <<>>, acc.fetched \cup {cur})
    ELSE ScoresAcc(FALSE, <<>>, acc.total \o RatingsOn(store, c, cur),
                   acc.fetched \cup {cur})

\* calculateWeeklyScores: the loop from currentWeekStart, the weeks taken as
\* the first half of them followed by the rest; only the last week is cut at e
RECURSIVE calculateWeeklyScores(_, _, _, _, _, _)
calculateWeeklyScores(store, cat, ws, e, fail, acc) ==
    IF ws > e \/ acc.err THEN acc
    ELSE IF ws + 7 <= e
    THEN LET weeks == ((e - ws) \div 7) + 1
             next == ws + 7 * (weeks \div 2)
         IN calculateWeeklyScores(store, cat, next, e, fail,
               calculateWeeklyScores(store, cat, ws, next - 1, fail, acc))
    ELSE LET weekEnd == IF ws + 6 > e THEN e ELSE ws + 6
             wr == getRatingsForDateRange(store, cat.id, ws, weekEnd, fail,
                                          ScoresAcc(FALSE, <<>>, <<>>, {}))
         IN IF wr.err
            THEN ScoresAcc(TRUE, <<>>, <<>>, acc.fetched \cup wr.fetched)
            ELSE ScoresAcc(FALSE,
                           Append(acc.scores,
                                  calculatePeriodScore(wr.total, cat, <<ws, weekEnd>>)),
                           acc.total \o wr.total, acc.fetched \cup wr.fetched)

calculateScores(store, cat, s, e, fail) ==
    IF shouldUseWeeklyAggregation(s, e)
    THEN calculateWeeklyScores(store, cat, getWeekStart(s), e, fail,
                               ScoresAcc(FALSE, <<>>, <<>>, {}))
    ELSE calculateDailyScores(store, cat, s, e, fail, ScoresAcc(FALSE, <<>>, <<>>, {}))

\* processCategoryAnalytics, given what calculateScores returned
CategoryAnalyticsRec(cat, r) ==
    [category |-> cat.id, ratings |-> Len(r.total), dates |-> r.scores,
     score |-> calculateOverallScore(r.total, cat)]

CANone == [status |-> "none", analytics |-> <<>>]

CAIdle ==
    /\ caStore = "clean"
    /\ caCats = <<>>
    /\ caRange = <<0, 0>>
    /\ caPc = "idle"
    /\ caResults = <<>>
    /\ caFetched = {}
    /\ caTotals = <<>>
    /\ caFetchError = <<>>
    /\ caResult = CANone

CAFrame == UNCHANGED <<scoreVars, oqVars, tsVars, calcVars, cbVars, pcVars>>

\* categories, err := s.categoryRepo.GetAll(ctx)
CALoadCategories ==
    /\ caPc = "cats"
    /\ \/ /\ caResult' = [status |-> "categoriesFailed", analytics |-> <<>>]
          /\ caFetchError' = <<"GetAll">>
          /\ caPc' = "done"
       \/ caPc' = "loop" /\ UNCHANGED <<caResult, caFetchError>>
    /\ UNCHANGED <<caStore, caCats, caRange, caResults, caFetched, caTotals>>
    /\ CAFrame

\* the days whose fetch may fail in one processCategoryAnalytics call
CAFailDays == {-1, caRange[1], caRange[1] + 8, caRange[2]}

\* mutant of CAProcessCategory: a failed ratings fetch is swallowed and the
\* category gets an empty entry
CAProcessCategorySwallowsError ==
    /\ caPc = "loop"
    /\ Len(caResults) < Len(caCats)
    /\ \E fail \in CAFailDays :
         LET cat == caCats[Len(caResults) + 1]
             r == calculateScores(caStore, cat, caRange[1], caRange[2], fail)
         IN /\ caFetched' = caFetched \cup {<<cat.id, d>> : d \in r.fetched}
            /\ caFetchError' = IF fail \in r.fetched
                               THEN <<"GetByCategoryIDAndDate", cat.id, fail>>
                               ELSE caFetchError
            /\ caResults' = Append(caResults, CategoryAnalyticsRec(cat, r))
            /\ caTotals' = Append(caTotals, r.total)
            /\ UNCHANGED <<caPc, caResult>>
    /\ UNCHANGED <<caStore, caCats, caRange>>
    /\ CAFrame

\* one iteration of "for _, category := range categories"
CAProcessCategory ==
    /\ caPc = "loop"
    /\ Len(caResults) < Len(caCats)
    /\ \E fail \in CAFailDays :
         LET cat == caCats[Len(caResults) + 1]
             r == calculateScores(caStore, cat, caRange[1], caRange[2], fail)
         IN /\ caFetched' = caFetched \cup {<<cat.id, d>> : d \in r.fetched}
            /\ caFetchError' = IF fail \in r.fetched
                               THEN <<"GetByCategoryIDAndDate", cat.id, fail>>
                               ELSE caFetchError
            /\ IF r.err
               THEN /\ caResult' = [status |-> "fetchFailed", analytics |-> <<>>]
                    /\ caPc' = "done"
                    /\ UNCHANGED <<caResults, caTotals>>
               ELSE /\ caResults' = Append(caResults, CategoryAnalyticsRec(cat, r))
                    /\ caTotals' = Append(caTotals, r.total)
                    /\ UNCHANGED <<caPc, caResult>>
    /\ UNCHANGED <<caStore, caCats, caRange>>
    /\ CAFrame

\* return results, nil
CAReturn ==
    /\ caPc = "loop"
    /\ Len(caResults) = Len(caCats)
    /\ caResult' = [status |-> "ok", analytics |-> caResults]
    /\ caPc' = "done"
    /\ UNCHANGED <<caStore, caCats, caRange, caResults, caFetched, caTotals, caFetchError>>
    /\ CAFrame

NextCA ==
    \/ CALoadCategories
    \/ CAProcessCategory
    \/ CAReturn

----------------------------------------------------------------------------
(* The sums of the pages of one rating set, combined in any order          *)

\* the largest number of pages a rating set is split into
MaxPages == 3

\* the ratings of rs that the split puts on page p, in the store's order
RECURSIVE PageRatings(_, _, _, _)
PageRatings(rs, split, p, i) ==
    IF i > Len(rs) THEN <<>>
    ELSE (IF split[i] = p THEN <<rs[i]>> ELSE <<>>) \o PageRatings(rs, split, p, i + 1)

CombineIdle ==
    /\ cbRatings = <<>>
    /\ cbCats = <<>>
    /\ cbSplit = <<>>
    /\ cbPending = {}
    /\ cbAgg = [tw |-> 0, tm |-> 0, errors |-> <<>>]
    /\ cbPc = "idle"
    /\ cbScore = <<0, 1>>

CombineFrame == UNCHANGED <<scoreVars, oqVars, tsVars, calcVars, caVars, pcVars>>

\* one page's result arrives: calculateChunkWeightedScore of the page, added
\* by aggregateChunkResults
CombineAddPage(p) ==
    /\ cbPc = "combine"
    /\ p \in cbPending
    /\ LET page == PageRatings(cbRatings, cbSplit, p, 1)
       IN cbAgg' = AggregateStep(cbAgg,
                      ChunkOk(p, calculateChunkWeightedScore(page, cbCats), Len(page)))
    /\ cbPending' = cbPending \ {p}
    /\ UNCHANGED <<cbRatings, cbCats, cbSplit, cbPc, cbScore>>
    /\ CombineFrame

\* all results are in: the final division of aggregateChunkResults
CombineFinish ==
    /\ cbPc = "combine"
    /\ cbPending = {}
    /\ cbScore' = AggregateFinal(cbAgg).score
    /\ cbPc' = "done"
    /\ UNCHANGED <<cbRatings, cbCats, cbSplit, cbPending, cbAgg>>
    /\ CombineFrame

NextCombine ==
    \/ \E p \in 1..MaxPages : CombineAddPage(p)
    \/ CombineFinish

----------------------------------------------------------------------------
(* Period comparison: the calendar, calculatePeriodDates, calculateDifference *)

\* day 0 of the calendar below is January 1st of this year
EpochYear == 2019
\* the latest starting date tried, as a day number (2020-12-31)
MaxStartDay == 730
\* the largest percentage a stored score string carries
MaxScorePct == 100

IsLeap(y) == y % 4 = 0 /\ (y % 100 # 0 \/ y % 400 = 0)
DaysInYear(y) == IF IsLeap(y) THEN 366 ELSE 365
DaysInMonth(y, m) ==
    IF m = 2 THEN (IF IsLeap(y) THEN 29 ELSE 28)
    ELSE IF m \in {4, 6, 9, 11} THEN 30 ELSE 31

RECURSIVE DaysBeforeYear(_)
DaysBeforeYear(y) ==
    IF y <= EpochYear THEN 0 ELSE DaysBeforeYear(y - 1) + DaysInYear(y - 1)

RECURSIVE DaysBeforeMonth(_, _)
DaysBeforeMonth(y, m) ==
    IF m <= 1 THEN 0 ELSE DaysBeforeMonth(y, m - 1) + DaysInMonth(y, m - 1)

RECURSIVE YearFrom(_, _)
YearFrom(y, n) ==
    IF n < DaysInYear(y) THEN [y |-> y, n |-> n] ELSE YearFrom(y + 1, n - DaysInYear(y))

RECURSIVE MonthFrom(_, _, _)
MonthFrom(y, m, n) ==
    IF n < DaysInMonth(y, m) THEN [y |-> y, m |-> m, d |-> n + 1]
    ELSE MonthFrom(y, m + 1, n - DaysInMonth(y, m))

\* t.Date(): year, month and day of a day number
Civil(t) == LET yr == YearFrom(EpochYear, t) IN MonthFrom(yr.y, 1, yr.n)

\* time.Date(y, m, d, 0, 0, 0, 0, loc): month and day values outside their
\* ranges are normalised (month 13 is January of the next year, day 0 is the
\* last day of the month before, day 31 of a 30-day month is the 1st of the next)
Date(y, m, d) ==
    LET yy == y + ((m - 1) \div 12)
        mm == ((m - 1) % 12) + 1
    IN DaysBeforeYear(yy) + DaysBeforeMonth(yy, mm) + d - 1

\* t.AddDate(years, months, days)
AddDate(t, years, months, days) ==
    LET c == Civil(t) IN Date(c.y + years, c.m + months, c.d + days)

\* pb.PeriodType
WEEK == 0
MONTH == 1
QUARTER == 2
YEAR == 3
\* the enum numbers a request may carry: the four above and one beyond them
PeriodTypes == {WEEK, MONTH, QUARTER, YEAR, YEAR + 1}

PeriodsOk(fs, fe, ss, se) == [err |-> FALSE, p |-> <<fs, fe, ss, se>>]
PeriodsErr == [err |-> TRUE, p |-> <<0, 0, 0, 0>>]

\* case pb.PeriodType_WEEK
weekPeriods(s) ==
    PeriodsOk(s, AddDate(s, 0, 0, 6), AddDate(s, 0, 0, 7), AddDate(s, 0, 0, 13))

\* case pb.PeriodType_MONTH
monthPeriods(s) ==
    LET c == Civil(s)
    IN PeriodsOk(s, AddDate(Date(c.y, c.m + 1, 1), 0, 0, -1),
                 Date(c.y, c.m + 1, 1),
                 AddDate(Date(c.y, c.m + 2, 1), 0, 0, -1))

\* mutant of quarterPeriods: a quarter taken as 90 days
quarterPeriodsAs90Days(s) ==
    PeriodsOk(s, AddDate(s, 0, 0, 89), AddDate(s, 0, 0, 90), AddDate(s, 0, 0, 179))

\* case pb.PeriodType_QUARTER
quarterPeriods(s) ==
    PeriodsOk(s, AddDate(AddDate(s, 0, 3, 0), 0, 0, -1),
                 AddDate(s, 0, 3, 0),
                 AddDate(AddDate(s, 0, 6, 0), 0, 0, -1))

\* mutant of yearPeriods: period 2 starts on the day period 1 ends
yearPeriodsOverlapping(s) ==
    PeriodsOk(s, AddDate(s, 1, 0, 0), AddDate(s, 1, 0, 0),
                 AddDate(AddDate(s, 2, 0, 0), 0, 0, -1))

\* case pb.PeriodType_YEAR
yearPeriods(s) ==
    PeriodsOk(s, AddDate(AddDate(s, 1, 0, 0), 0, 0, -1),
                 AddDate(s, 1, 0, 0),
                 AddDate(AddDate(s, 2, 0, 0), 0, 0, -1))

\* PeriodComparisonServer.calculatePeriodDates
calculatePeriodDates(startingDate, periodType) ==
    CASE periodType = WEEK -> weekPeriods(startingDate)
      [] periodType = MONTH -> monthPeriods(startingDate)
      [] periodType = QUARTER -> quarterPeriods(startingDate)
      [] periodType = YEAR -> yearPeriods(startingDate)
      [] OTHER -> PeriodsErr

\* the text of a difference: "N/A", or a sign ("+", "-" or none), and the
\* digits as a number of tenths, followed by "%"
DiffNA == [na |-> TRUE, sign |-> "", tenths |-> 0]
DiffText(sign, tenths) == [na |-> FALSE, sign |-> sign, tenths |-> tenths]

\* a score string that is neither "N/A" nor a number followed by "%"
Unparsable == [na |-> FALSE, pct |-> 0, junk |-> TRUE]
ScoreStrings == {NA, Unparsable} \cup {Pct(n) : n \in 0..MaxScorePct}

\* strconv.ParseFloat(strings.TrimSuffix(s, "%"), 64)
ParseScore(s) ==
    IF s = Unparsable \/ s = NA THEN [err |-> TRUE, value |-> 0]
    ELSE [err |-> FALSE, value |-> s.pct]

\* the digits "%.1f" prints for the magnitude n/d: the nearest number of
\* tenths; float64 holds the quotient only approximately, so where n/d lies
\* exactly between two tenths either of them can be printed
FormatTenths(n, d) ==
    LET q == (10 * n) \div d
        r == (10 * n) % d
    IN IF 2 * r < d THEN {q} ELSE IF 2 * r > d THEN {q + 1} ELSE {q, q + 1}

\* mutant of calculateDifference: a positive change is printed without "+"
calculateDifferenceNoPlus(firstScore, secondScore) ==
    IF firstScore = NA \/ secondScore = NA THEN {DiffNA}
    ELSE LET p1 == ParseScore(firstScore)
             p2 == ParseScore(secondScore)
         IN IF p1.err \/ p2.err THEN {DiffNA}
            ELSE IF p1.value = 0
                 THEN (IF p2.value = 0 THEN {DiffText("", 0)} ELSE {DiffNA})
            ELSE IF p2.value > p1.value
                 THEN {DiffText("", t) :
                          t \in FormatTenths(100 * (p2.value - p1.value), p1.value)}
            ELSE IF p2.value < p1.value
                 THEN {DiffText("-", t) :
                          t \in FormatTenths(100 * (p1.value - p2.value), p1.value)}
            ELSE {DiffText("", 0)}

\* PeriodComparisonService.calculateDifference: the strings it can return
calculateDifference(firstScore, secondScore) ==
    IF firstScore = NA \/ secondScore = NA THEN {DiffNA}
    ELSE LET p1 == ParseScore(firstScore)
             p2 == ParseScore(secondScore)
         IN IF p1.err \/ p2.err THEN {DiffNA}
            ELSE IF p1.value = 0
                 THEN (IF p2.value = 0 THEN {DiffText("", 0)} ELSE {DiffNA})
            ELSE IF p2.value > p1.value
                 THEN {DiffText("+", t) :
                          t \in FormatTenths(100 * (p2.value - p1.value), p1.value)}
            ELSE IF p2.value < p1.value
                 THEN {DiffText("-", t) :
                          t \in FormatTenths(100 * (p1.value - p2.value), p1.value)}
            ELSE {DiffText("", 0)}

PeriodDatesIdle ==
    /\ pdStart = 0
    /\ pdUnit = WEEK
    /\ pdPc = "idle"
    /\ pdResult = PeriodsErr

DifferenceIdle ==
    /\ dfOlder = NA
    /\ dfRecent = NA
    /\ dfPc = "idle"
    /\ dfResult = DiffNA

\* calculatePeriodDates applied to the starting date and period type
CallCalculatePeriodDates ==
    /\ pdPc = "input"
    /\ pdResult' = calculatePeriodDates(pdStart, pdUnit)
    /\ pdPc' = "done"
    /\ UNCHANGED <<pdStart, pdUnit, dfVars, srvVars>>
    /\ UNCHANGED <<scoreVars, oqVars, tsVars, calcVars, caVars, cbVars>>

\* calculateDifference applied to two score strings
CallCalculateDifference ==
    /\ dfPc = "input"
    /\ dfResult' \in calculateDifference(dfOlder, dfRecent)
    /\ dfPc' = "done"
    /\ UNCHANGED <<dfOlder, dfRecent, pdVars, srvVars>>
    /\ UNCHANGED <<scoreVars, oqVars, tsVars, calcVars, caVars, cbVars>>

----------------------------------------------------------------------------
(* The unary gRPC handlers: validation, then the service layer             *)

\* a date field of a request: empty, text that is not a date, or a date
EmptyField == [kind |-> "empty", day |-> 0]
MalformedField == [kind |-> "malformed", day |-> 0]
DateField(d) == [kind |-> "date", day |-> d]
\* the dates requests carry: 2019-10-01, 2019-10-08 and 2020-02-29
ServerDays == {273, 280, 424}
DateFields == {EmptyField, MalformedField} \cup {DateField(d) : d \in ServerDays}

\* time.Parse("2006-01-02", field)
ParseDate(f) == [err |-> f.kind # "date", day |-> f.day]

\* what the store makes one GetOverallQualityScore call yield: an error, or
\* the score string of the range
StoreOutcome(e, s) == [err |-> e, score |-> s]
StoreOutcomes ==
    {StoreOutcome(TRUE, NA)} \cup {StoreOutcome(FALSE, s) : s \in {NA, Pct(0), Pct(82), Pct(89)}}

\* OverallQualityService.GetOverallQualityScore, seen from its caller
OverallQualityScoreOf(startDate, endDate, outcome) ==
    [err |-> outcome.err,
     period |-> IF outcome.err THEN <<>> ELSE FormatDateRange(startDate, endDate),
     score |-> outcome.score]

NoBody ==
    [start_period |-> <<>>, start_score |-> NA, end_period |-> <<>>, end_score |-> NA,
     difference |-> DiffNA]
Response(code, body) == [code |-> code, body |-> body]
NoResponse == Response("none", NoBody)

ServersIdle ==
    /\ srvHandler = "none"
    /\ srvReq = [start |-> EmptyField, end |-> EmptyField, unit |-> WEEK]
    /\ srvStore = <<StoreOutcome(TRUE, NA), StoreOutcome(TRUE, NA)>>
    /\ srvPc = "idle"
    /\ srvPeriods = <<0, 0, 0, 0>>
    /\ srvCalls = <<>>
    /\ srvFirst = OverallQualityScoreOf(0, 0, StoreOutcome(TRUE, NA))
    /\ srvResponse = NoResponse

PeriodIdle == PeriodDatesIdle /\ DifferenceIdle /\ ServersIdle

ServersFrame ==
    /\ UNCHANGED <<pdVars, dfVars>>
    /\ UNCHANGED <<scoreVars, oqVars, tsVars, calcVars, caVars, cbVars>>

\* PeriodComparisonServer.GetPeriodComparison up to the service call: the
\* request is validated and the two periods are derived
PeriodValidate ==
    /\ srvHandler = "period"
    /\ srvPc = "validate"
    /\ LET parsed == ParseDate(srvReq.start)
           periods == calculatePeriodDates(parsed.day, srvReq.unit)
       IN IF srvReq.start = EmptyField \/ parsed.err \/ periods.err
          THEN /\ srvResponse' = Response("InvalidArgument", NoBody)
               /\ srvPc' = "done"
               /\ UNCHANGED srvPeriods
          ELSE /\ srvPeriods' = periods.p
               /\ srvPc' = "first"
               /\ UNCHANGED srvResponse
    /\ UNCHANGED <<srvHandler, srvReq, srvStore, srvCalls, srvFirst>>
    /\ ServersFrame

\* PeriodComparisonService.GetPeriodComparison: the first period's score
PeriodFirstScore ==
    /\ srvHandler = "period"
    /\ srvPc = "first"
    /\ srvCalls' = Append(srvCalls, <<srvPeriods[1], srvPeriods[2]>>)
    /\ LET first == OverallQualityScoreOf(srvPeriods[1], srvPeriods[2], srvStore[1])
       IN IF first.err
          THEN /\ srvResponse' = Response("Internal", NoBody)
               /\ srvPc' = "done"
               /\ UNCHANGED srvFirst
          ELSE /\ srvFirst' = first
               /\ srvPc' = "second"
               /\ UNCHANGED srvResponse
    /\ UNCHANGED <<srvHandler, srvReq, srvStore, srvPeriods>>
    /\ ServersFrame

\* mutant of PeriodComparisonResult: the slots filled in computation order
PeriodComparisonResultInOrder(first, second, difference) ==
    [start_period |-> first.period, start_score |-> first.score,
     end_period |-> second.period, end_score |-> second.score,
     difference |-> difference]

\* the PeriodComparisonResult GetPeriodComparison returns
PeriodComparisonResult(first, second, difference) ==
    [start_period |-> second.period, start_score |-> second.score,
     end_period |-> first.period, end_score |-> first.score,
     difference |-> difference]

\* the second period's score, the difference, and the handler's response
PeriodSecondScore ==
    /\ srvHandler = "period"
    /\ srvPc = "second"
    /\ srvCalls' = Append(srvCalls, <<srvPeriods[3], srvPeriods[4]>>)
    /\ LET second == OverallQualityScoreOf(srvPeriods[3], srvPeriods[4], srvStore[2])
       IN IF second.err
          THEN srvResponse' = Response("Internal", NoBody)
          ELSE \E d \in calculateDifference(srvFirst.score, second.score) :
                   srvResponse' = Response("OK", PeriodComparisonResult(srvFirst, second, d))
    /\ srvPc' = "done"
    /\ UNCHANGED <<srvHandler, srvReq, srvStore, srvPeriods, srvFirst>>
    /\ ServersFrame

\* mutant of OverallValidate: the date range is not checked
OverallValidateNoRangeCheck ==
    /\ srvHandler = "overall"
    /\ srvPc = "validate"
    /\ LET s == ParseDate(srvReq.start)
           e == ParseDate(srvReq.end)
       IN IF \/ srvReq.start = EmptyField \/ srvReq.end = EmptyField
             \/ s.err \/ e.err
          THEN /\ srvResponse' = Response("InvalidArgument", NoBody)
               /\ srvPc' = "done"
               /\ UNCHANGED srvPeriods
          ELSE /\ srvPeriods' = <<s.day, e.day, 0, 0>>
               /\ srvPc' = "call"
               /\ UNCHANGED srvResponse
    /\ UNCHANGED <<srvHandler, srvReq, srvStore, srvCalls, srvFirst>>
    /\ ServersFrame

\* OverallQualityServer.GetOverallQualityScore up to the service call
OverallValidate ==
    /\ srvHandler = "overall"
    /\ srvPc = "validate"
    /\ LET s == ParseDate(srvReq.start)
           e == ParseDate(srvReq.end)
       IN IF \/ srvReq.start = EmptyField \/ srvReq.end = EmptyField
             \/ s.err \/ e.err
             \/ s.day > e.day
          THEN /\ srvResponse' = Response("InvalidArgument", NoBody)
               /\ srvPc' = "done"
               /\ UNCHANGED srvPeriods
          ELSE /\ srvPeriods' = <<s.day, e.day, 0, 0>>
               /\ srvPc' = "call"
               /\ UNCHANGED srvResponse
    /\ UNCHANGED <<srvHandler, srvReq, srvStore, srvCalls, srvFirst>>
    /\ ServersFrame

\* the service-layer call and the response built from it
OverallCall ==
    /\ srvHandler = "overall"
    /\ srvPc = "call"
    /\ srvCalls' = Append(srvCalls, <<srvPeriods[1], srvPeriods[2]>>)
    /\ LET r == OverallQualityScoreOf(srvPeriods[1], srvPeriods[2], srvStore[1])
       IN /\ srvFirst' = r
          /\ srvResponse' = IF r.err THEN Response("Internal", NoBody)
                            ELSE Response("OK", [NoBody EXCEPT !.start_period = r.period,
                                                               !.start_score = r.score])
    /\ srvPc' = "done"
    /\ UNCHANGED <<srvHandler, srvReq, srvStore, srvPeriods>>
    /\ ServersFrame

NextServers ==
    \/ PeriodValidate
    \/ PeriodFirstScore
    \/ PeriodSecondScore
    \/ OverallValidate
    \/ OverallCall

----------------------------------------------------------------------------
(* Specifications: one per component, the other components idle            *)

InitOQ ==
    /\ CAIdle
    /\ CombineIdle
    /\ PeriodIdle
    /\ CalcIdle
    /\ ScoreIdle
    /\ TSIdle
    /\ oqStore \in OQStores
    /\ oqCats \in OQCategoryLists
    /\ oqRange \in OQRanges
    /\ oqPc = "count"
    /\ oqTotal = 0
    /\ oqLog = <<>>
    /\ oqCancelled = FALSE
    /\ chunks = <<>>
    /\ oqSem = 0
    /\ oqWg = 0
    /\ oqChan = <<>>
    /\ oqChanClosed = FALSE
    /\ oqCloserPc = "unspawned"
    /\ oqAgg = [tw |-> 0, tm |-> 0, errors |-> <<>>]
    /\ oqResult = OQNone

SpecOQ == InitOQ /\ [][NextOQ]_vars

\* processChunksConcurrently called directly, as its tests do, with a context
\* that is cancelled before the call
InitChunksCancelled ==
    /\ CAIdle
    /\ CombineIdle
    /\ PeriodIdle
    /\ CalcIdle
    /\ ScoreIdle
    /\ TSIdle
    /\ oqStore \in OQStores \ {<<>>}
    /\ oqCats \in OQCategoryLists
    /\ oqRange \in OQRanges
    /\ oqPc = "spawn"
    /\ oqTotal = Len(oqStore)
    /\ oqLog = <<>>
    /\ oqCancelled = TRUE
    /\ chunks = <<>>
    /\ oqSem = 0
    /\ oqWg = 0
    /\ oqChan = <<>>
    /\ oqChanClosed = FALSE
    /\ oqCloserPc = "unspawned"
    /\ oqAgg = [tw |-> 0, tm |-> 0, errors |-> <<>>]
    /\ oqResult = OQNone

NextChunks ==
    \/ OQSpawnChunk
    \/ OQStartCloser
    \/ OQCloser
    \/ \E k \in ChunkIds : ChunkAcquire(k)
    \/ \E k \in ChunkIds : ChunkCancelled(k)
    \/ \E k \in ChunkIds : ChunkFetch(k)
    \/ \E k \in ChunkIds : ChunkSend(k)
    \/ \E k \in ChunkIds : ChunkRelease(k)
    \/ \E k \in ChunkIds : ChunkWgDone(k)
    \/ OQAggregateReceive
    \/ OQAggregateFinish

SpecChunksCancelled == InitChunksCancelled /\ [][NextChunks]_vars

\* GetOverallQualityScore with every goroutine scheduled again and again and every
\* repository call returning; cancellation may or may not come
SpecOQFair ==
    /\ SpecOQ
    /\ WF_vars(OQCount)
    /\ WF_vars(OQLoadCategories)
    /\ WF_vars(NextChunks)

InitTS ==
    /\ CAIdle
    /\ CombineIdle
    /\ PeriodIdle
    /\ CalcIdle
    /\ ScoreIdle
    /\ OQIdle
    /\ tsTickets \in {1..n : n \in 0..MaxTickets}
    /\ tsPc = "fetchIDs"
    /\ tasks = <<>>
    /\ tsSem = 0
    /\ tsWg = 0
    /\ tsResChan = <<>>
    /\ tsResClosed = FALSE
    /\ tsErrChan = <<>>
    /\ tsErrClosed = FALSE
    /\ tsCancelled = FALSE
    /\ tsCallerCancelled = FALSE
    /\ tsFetchFailed = FALSE
    /\ tsRpc = "running"
    /\ tsDelivered = [t \in tsTickets |-> 0]

SpecTS == InitTS /\ [][NextTS]_vars

\* Go schedules every runnable goroutine, and select picks each ready case
\* with positive probability: every step that stays possible is taken.
SpecTSFair ==
    /\ SpecTS
    /\ WF_vars(TSProducer)
    /\ \A t \in 1..MaxTickets : WF_vars(t \in TaskIds /\ TSTask(t))
    /\ WF_vars(ServerReceiveResult)
    /\ WF_vars(ServerResultClosed)
    /\ WF_vars(ServerReceiveError)
    /\ WF_vars(ServerContextDone)

InitCalc ==
    /\ CAIdle
    /\ CombineIdle
    /\ PeriodIdle
    /\ ScoreIdle
    /\ OQIdle
    /\ TSIdle
    /\ calcCats \in CalcCategoryLists
    /\ calcRatings \in {f \in [DOMAIN calcCats -> UNION {CalcRatingLists(c) : c \in 1..4}] :
                          \A i \in DOMAIN calcCats : f[i] \in CalcRatingLists(calcCats[i].id)}
    /\ calcPc = "spawn"
    /\ catTasks = <<>>
    /\ calcWg = 0
    /\ calcChan = <<>>
    /\ calcChanClosed = FALSE
    /\ calcCloserPc = "unspawned"
    /\ calcOut = <<>>
    /\ calcResult = CalcNone

SpecCalc == InitCalc /\ [][NextCalc]_vars

InitCA ==
    /\ ScoreIdle
    /\ CombineIdle
    /\ PeriodIdle
    /\ OQIdle
    /\ TSIdle
    /\ CalcIdle
    /\ caStore \in CAStores
    /\ caCats \in CalcCategoryLists
    /\ caRange \in {<<s, s + n>> : s \in StartDays, n \in 0..MaxSpan}
    /\ caPc = "cats"
    /\ caResults = <<>>
    /\ caFetched = {}
    /\ caTotals = <<>>
    /\ caFetchError = <<>>
    /\ caResult = CANone

SpecCA == InitCA /\ [][NextCA]_vars

InitCombine ==
    /\ PeriodIdle
    /\ ScoreIdle
    /\ OQIdle
    /\ TSIdle
    /\ CalcIdle
    /\ CAIdle
    /\ cbRatings \in OQStores
    /\ cbCats \in OQCategoryLists
    /\ cbSplit \in [DOMAIN cbRatings -> 1..MaxPages]
    /\ cbPending = 1..MaxPages
    /\ cbAgg = [tw |-> 0, tm |-> 0, errors |-> <<>>]
    /\ cbPc = "combine"
    /\ cbScore = <<0, 1>>

SpecCombine == InitCombine /\ [][NextCombine]_vars

\* calculatePeriodDates applied to every starting date and period type

InitPeriodDates ==
    /\ ScoreIdle
    /\ OQIdle
    /\ TSIdle
    /\ CalcIdle
    /\ CAIdle
    /\ CombineIdle
    /\ DifferenceIdle
    /\ ServersIdle
    /\ pdStart \in 0..MaxStartDay
    /\ pdUnit \in PeriodTypes
    /\ pdPc = "input"
    /\ pdResult = PeriodsErr

SpecPeriodDates == InitPeriodDates /\ [][CallCalculatePeriodDates]_vars

\* calculateDifference applied to every pair of score strings

InitDifference ==
    /\ ScoreIdle
    /\ OQIdle
    /\ TSIdle
    /\ CalcIdle
    /\ CAIdle
    /\ CombineIdle
    /\ PeriodDatesIdle
    /\ ServersIdle
    /\ dfOlder \in ScoreStrings
    /\ dfRecent \in ScoreStrings
    /\ dfPc = "input"
    /\ dfResult = DiffNA

SpecDifference == InitDifference /\ [][CallCalculateDifference]_vars

\* one request to the period comparison handler or to the overall quality
\* handler, against a store whose answers are fixed for the request

InitServers ==
    /\ ScoreIdle
    /\ OQIdle
    /\ TSIdle
    /\ CalcIdle
    /\ CAIdle
    /\ CombineIdle
    /\ PeriodDatesIdle
    /\ DifferenceIdle
    /\ srvHandler \in {"period", "overall"}
    /\ srvReq \in [start : DateFields, end : DateFields, unit : PeriodTypes]
    /\ srvHandler = "period" => srvReq.end = EmptyField
    /\ srvHandler = "overall" => srvReq.unit = WEEK
    /\ srvStore \in [1..2 -> StoreOutcomes]
    /\ srvHandler = "overall" => srvStore[2] = StoreOutcome(TRUE, NA)
    /\ srvPc = "validate"
    /\ srvPeriods = <<0, 0, 0, 0>>
    /\ srvCalls = <<>>
    /\ srvFirst = OverallQualityScoreOf(0, 0, StoreOutcome(TRUE, NA))
    /\ srvResponse = NoResponse

SpecServers == InitServers /\ [][NextServers]_vars

\* CalculateScore applied to every bounded input

InitScore ==
    /\ CAIdle
    /\ CombineIdle
    /\ PeriodIdle
    /\ CalcIdle
    /\ OQIdle
    /\ TSIdle
    /\ ratings \in SeqsUpTo(RatingRec, MaxRatings)
    /\ categories \in SeqsUpTo(CategoryRec, MaxCats)
    /\ scoreResult = ScoreErr("unset")
    /\ scorePc = "input"

CallCalculateScore ==
    /\ scorePc = "input"
    /\ scoreResult' = CalculateScore(ratings, categories)
    /\ scorePc' = "done"
    /\ UNCHANGED <<ratings, categories>>
    /\ UNCHANGED <<oqVars, tsVars, calcVars, caVars, cbVars, pcVars>>

NextScore == CallCalculateScore

SpecScore == InitScore /\ [][NextScore]_vars

\* the three places that share a channel between goroutines, one call at a
\* time: GetTicketScores with its handler, calculateTicketScore, and
\* GetOverallQualityScore down to processChunksConcurrently
InitChannels == InitTS \/ InitCalc \/ InitOQ

NextChannels == NextTS \/ NextCalc \/ NextOQ

SpecChannels == InitChannels /\ [][NextChannels]_vars

\* rating rows and category rows as a store without constraints can hold them:
\* a value above 5, a negative weight
OQUnconstrainedStores ==
    { << [cat |-> 1, value |-> 6] >>,
      << [cat |-> 1, value |-> 5], [cat |-> 2, value |-> 0] >> }
OQUnconstrainedLists ==
    OQCategoryLists \cup { << [id |-> 1, weight |-> -5], [id |-> 2, weight |-> 10] >> }

\* GetOverallQualityScore against such a store
InitOQUnconstrained ==
    /\ CAIdle
    /\ CombineIdle
    /\ PeriodIdle
    /\ CalcIdle
    /\ ScoreIdle
    /\ TSIdle
    /\ oqStore \in OQUnconstrainedStores
    /\ oqCats \in OQUnconstrainedLists
    /\ oqRange \in OQRanges
    /\ oqPc = "count"
    /\ oqTotal = 0
    /\ oqLog = <<>>
    /\ oqCancelled = FALSE
    /\ chunks = <<>>
    /\ oqSem = 0
    /\ oqWg = 0
    /\ oqChan = <<>>
    /\ oqChanClosed = FALSE
    /\ oqCloserPc = "unspawned"
    /\ oqAgg = [tw |-> 0, tm |-> 0, errors |-> <<>>]
    /\ oqResult = OQNone

\* every service that produces a score, one call at a time: the category
\* analytics, one ticket's category scores, the overall quality score
InitAllScores == InitCA \/ InitCalc \/ InitOQ \/ InitOQUnconstrained

NextAllScores == NextCA \/ NextCalc \/ NextOQ

SpecAllScores == InitAllScores /\ [][NextAllScores]_vars

----------------------------------------------------------------------------
(* C1, C2: the score formula and its failures                              *)

RECURSIVE SumOver(_, _)
SumOver(S, f) ==
    IF S = {} THEN 0
    ELSE LET x == CHOOSE y \in S : TRUE IN f[x] + SumOver(S \ {x}, f)

ListedIds(cats) == {cats[i].id : i \in DOMAIN cats}
\* the weight the category list gives to id c (its last entry for c)
WeightOf(cats, c) ==
    LET is == {i \in DOMAIN cats : cats[i].id = c}
        last == CHOOSE i \in is : \A j \in is : j <= i
    IN cats[last].weight

AllKnown(rs, cats) == \A i \in DOMAIN rs : rs[i].cat \in ListedIds(cats)
AllInRange(rs) == \A i \in DOMAIN rs : rs[i].value \in 0..5
WeightedSum(rs, cats) ==
    SumOver(DOMAIN rs, [i \in DOMAIN rs |-> rs[i].value * WeightOf(cats, rs[i].cat)])
MaxPossibleSum(rs, cats) ==
    SumOver(DOMAIN rs, [i \in DOMAIN rs |-> 5 * WeightOf(cats, rs[i].cat)])

ValidScoreInput(rs, cats) ==
    /\ Len(rs) > 0
    /\ AllKnown(rs, cats)
    /\ AllInRange(rs)
    /\ MaxPossibleSum(rs, cats) > 0

ReferencedOnly(rs, cats) ==
    SelectSeq(cats, LAMBDA c : \E i \in DOMAIN rs : rs[i].cat = c.id)

\* C1: on a valid input CalculateScore returns
\* 100 * SUM(value * weight) / SUM(5 * weight) over the supplied ratings, and
\* the categories no rating references do not change the result.
C1_ScoreFormula ==
    (scorePc = "done" /\ ValidScoreInput(ratings, categories)) =>
        /\ scoreResult.err = "none"
        /\ scoreResult.score[1] * MaxPossibleSum(ratings, categories)
             = 100 * WeightedSum(ratings, categories) * scoreResult.score[2]
        /\ scoreResult = CalculateScore(ratings, ReferencedOnly(ratings, categories))

C1_Witness ==
    /\ scorePc = "done"
    /\ ValidScoreInput(ratings, categories)
    /\ Len(ratings) = 3
    /\ Len(ReferencedOnly(ratings, categories)) < Len(categories)
    /\ scoreResult.score = <<160, 3>>

\* C2: CalculateScore returns an error (and the zero score) exactly when the
\* rating list is empty, a rating's category is not listed, a rating value is
\* outside 0..5, or the sum of 5 * weight over the ratings is zero.
C2_ErrorExactly ==
    scorePc = "done" =>
        /\ (scoreResult.err # "none") <=>
              \/ Len(ratings) = 0
              \/ ~AllKnown(ratings, categories)
              \/ ~AllInRange(ratings)
              \/ (AllKnown(ratings, categories) /\ MaxPossibleSum(ratings, categories) = 0)
        /\ (scoreResult.err # "none") => scoreResult.score = <<0, 1>>

C2_Witness ==
    /\ scorePc = "done"
    /\ scoreResult.err = "OutOfRange"
    /\ AllKnown(ratings, categories)
    /\ \E i \in DOMAIN ratings : ratings[i].value = 6
    /\ \A i \in DOMAIN ratings : ratings[i].value >= 0

----------------------------------------------------------------------------
(* C3, C8: the chunked engine's result and its repository calls            *)

\* ceil(n / ChunkSize), by its defining inequalities
CeilChunks(n) == CHOOSE c \in 0..n : c * ChunkSize >= n /\ (c - 1) * ChunkSize < n

\* C3: a score is returned only if every one of the ceil(totalCount/chunkSize)
\* chunk tasks fetched its page successfully; a failed fetch or a task aborted
\* by cancellation makes the call return an error and no score.
C3_NoPartialResult ==
    (oqPc = "done" /\ oqTotal > 0) =>
        /\ oqResult.status = "ok" =>
              /\ Len(chunks) = CeilChunks(oqTotal)
              /\ \A k \in DOMAIN chunks : chunks[k].res.err = "none"
        /\ (\E k \in DOMAIN chunks : chunks[k].res.err \in {"fetchFailed", "cancelled"}) =>
              /\ oqResult.status = "chunksFailed"
              /\ oqResult.score = NA
              /\ oqResult.period = <<>>

C3_Witness ==
    /\ oqPc = "done"
    /\ oqResult.status = "chunksFailed"
    /\ Len(chunks) = 3
    /\ \E k \in DOMAIN chunks : chunks[k].res.err = "none"
    /\ \E k \in DOMAIN chunks : chunks[k].res.err = "fetchFailed"
    /\ \E k \in DOMAIN chunks : chunks[k].res.err = "cancelled"

CountIn(log, what) == Cardinality({i \in DOMAIN log : log[i] = what})

\* C8: with a zero count the call returns the period label with "N/A" and
\* neither loads the categories, spawns a chunk task nor fetches a page; with
\* a positive count the categories are loaded exactly once, after the count
\* and before any page fetch.
C8_ZeroCountShortCircuit ==
    /\ Len(oqStore) = 0 =>
          /\ CountIn(oqLog, "cats") = 0
          /\ CountIn(oqLog, "page") = 0
          /\ chunks = <<>>
          /\ (oqPc = "done" /\ oqResult.status # "countFailed") =>
                oqResult = [status |-> "ok",
                            period |-> FormatDateRange(oqRange[1], oqRange[2]),
                            score |-> NA, errs |-> <<>>]
    /\ \A i \in DOMAIN oqLog :
          /\ oqLog[i] = "count" <=> i = 1
          /\ oqLog[i] = "cats" <=> i = 2
    /\ (oqTotal > 0 /\ oqPc # "cats") => CountIn(oqLog, "cats") = 1

C8_Witness ==
    /\ oqPc = "done"
    /\ Len(oqStore) = 0
    /\ oqLog = <<"count">>
    /\ oqResult.status = "ok"
    /\ oqResult.period = <<3>>

C8_WitnessPositive ==
    /\ oqPc = "done"
    /\ oqResult.status = "ok"
    /\ oqTotal = 5
    /\ oqLog = <<"count", "cats", "page", "page", "page">>

----------------------------------------------------------------------------
(* C4, C5: errors and deliveries of the ticket score stream                *)

TicketFetchFailed == \E t \in DOMAIN tasks : tasks[t].failed

\* C4: if a ticket's per-category rating fetch fails and the caller does not
\* cancel, the RPC ends with an error status, never with normal completion.
C4_ErrorAbortsStream ==
    (tsRpc # "running" /\ TicketFetchFailed /\ ~tsCallerCancelled) => tsRpc # "ok"

NoTroubleTS == ~tsFetchFailed /\ ~tsCallerCancelled /\ tsRpc # "sendFailed"
AllDeliveredOnce == \A t \in tsTickets : tsDelivered[t] = 1

\* C5: with no failed fetch, no cancellation and a consumer that keeps
\* receiving, every ticket ID of the fetch is delivered exactly once (never
\* twice, none missing once the result channel is closed and drained), and
\* that point is reached.
C5_EachTicketOnce ==
    /\ [](NoTroubleTS => \A t \in tsTickets : tsDelivered[t] <= 1)
    /\ []((NoTroubleTS /\ tsResClosed /\ tsResChan = <<>>) => AllDeliveredOnce)
    /\ <>(~NoTroubleTS \/ (tsResClosed /\ tsResChan = <<>> /\ AllDeliveredOnce))

C5_Witness ==
    /\ NoTroubleTS
    /\ tsTickets = 1..MaxTickets
    /\ tsResClosed
    /\ tsResChan = <<>>
    /\ AllDeliveredOnce
    /\ tsRpc = "ok"

----------------------------------------------------------------------------
(* C6, C7: the category entries of one ticket's record                     *)

\* C6: a TicketScore returned without error has exactly one entry per loaded
\* category, each with a non-empty score, with or without ratings in it.
C6_EntryPerCategory ==
    (calcPc = "done" /\ calcResult.status = "ok") =>
        /\ Len(calcResult.categories) = Len(calcCats)
        /\ \A i \in DOMAIN calcCats :
              Cardinality({j \in DOMAIN calcResult.categories :
                              calcResult.categories[j].name = calcCats[i].id}) = 1
        /\ \A j \in DOMAIN calcResult.categories :
              \/ calcResult.categories[j].score = NA
              \/ calcResult.categories[j].score.pct \in Nat

C6_Witness ==
    /\ calcPc = "done"
    /\ calcResult.status = "ok"
    /\ Len(calcCats) = MaxCats
    /\ calcRatings[1] # <<>>
    /\ calcRatings[2] = <<>>
    /\ calcResult.categories[1].name = 1
    /\ calcResult.categories[1].score = Pct(70)

\* C7: the entries of a record are in the order the categories were loaded,
\* whatever the completion order of the per-category computations.
C7_CategoryStoreOrder ==
    (calcPc = "done" /\ calcResult.status = "ok") =>
        \A j \in DOMAIN calcResult.categories :
            j \in DOMAIN calcCats /\ calcResult.categories[j].name = calcCats[j].id

----------------------------------------------------------------------------
(* C9, C10: the ratings counted and the bucketing mode of category analytics *)

RECURSIVE RatingsWithin(_, _, _, _)
RatingsWithin(store, c, s, e) ==
    IF s > e THEN <<>> ELSE RatingsOn(store, c, s) \o RatingsWithin(store, c, s + 1, e)

\* C9: in daily and in weekly mode, each category's Ratings is the number of
\* its ratings created within [startDate, endDate], its Score is computed over
\* exactly those ratings, and no rating dated outside the range is fetched.
C9_CountsOnlyTheRange ==
    \A i \in DOMAIN caResults :
        LET inRange == RatingsWithin(caStore, caCats[i].id, caRange[1], caRange[2])
        IN /\ caResults[i].ratings = Len(inRange)
           /\ caResults[i].score = calculateOverallScore(inRange, caCats[i])
           /\ \A j \in DOMAIN caTotals[i] :
                 caTotals[i][j].day \in caRange[1]..caRange[2]

DailyLabels(a) == \A j \in DOMAIN a.dates : Len(a.dates[j].date) = 1
WeeklyLabels(a) == \A j \in DOMAIN a.dates : Len(a.dates[j].date) = 2

\* C10: weekly bucketing is used exactly when endDate - startDate is more
\* than 30 days, daily bucketing otherwise (at exactly 30 days: daily).
C10_WeeklyOver30Days ==
    \A i \in DOMAIN caResults :
        IF caRange[2] - caRange[1] > 30
        THEN /\ WeeklyLabels(caResults[i])
             /\ Len(caResults[i].dates) < caRange[2] - caRange[1] + 1
        ELSE /\ DailyLabels(caResults[i])
             /\ Len(caResults[i].dates) = caRange[2] - caRange[1] + 1

C10_Witness ==
    /\ caPc = "done"
    /\ caResult.status = "ok"
    /\ caRange[2] - caRange[1] = 30
    /\ Len(caResult.analytics) = MaxCats
    /\ Len(caResult.analytics[1].dates) = 31
    /\ DailyLabels(caResult.analytics[1])

C10_WitnessWeekly ==
    /\ caPc = "done"
    /\ caResult.status = "ok"
    /\ caRange[2] - caRange[1] = 31
    /\ Len(caResult.analytics) = MaxCats
    /\ WeeklyLabels(caResult.analytics[1])

----------------------------------------------------------------------------
(* C11: the entries of a category in daily mode                            *)

DailyMode == caRange[2] - caRange[1] <= 30

\* the outcome of the score formula on one bucket of ratings of a category:
\* its score in percent, "N/A" where it yields none
FormulaOutcome(rs, cat) ==
    IF Len(rs) > 0 /\ ValidScoreInput(rs, <<cat>>)
    THEN formatScore(Frac(100 * WeightedSum(rs, <<cat>>), MaxPossibleSum(rs, <<cat>>)))
    ELSE NA

\* C11: in daily mode the Dates of each category have exactly one entry per
\* calendar day from startDate to endDate, ascending, each labelled with that
\* single date; a day without ratings has "N/A" and every other day has the
\* outcome of the score formula on that day's ratings alone.
C11_DailyEntries ==
    DailyMode =>
        \A i \in DOMAIN caResults :
            LET dates == caResults[i].dates
            IN /\ Len(dates) = caRange[2] - caRange[1] + 1
               /\ \A j \in DOMAIN dates :
                     LET d == caRange[1] + j - 1
                         rs == RatingsOn(caStore, caCats[i].id, d)
                     IN /\ dates[j].date = <<d>>
                        /\ Len(rs) = 0 => dates[j].score = NA
                        /\ dates[j].score = FormulaOutcome(rs, caCats[i])

C11_Witness ==
    /\ caPc = "done"
    /\ caResult.status = "ok"
    /\ caRange = <<9, 12>>
    /\ caStore = "clean"
    /\ Len(caResult.analytics) = MaxCats
    /\ caResult.analytics[1].dates =
          << DailyScoreRec(<<9>>, Pct(20)), DailyScoreRec(<<10>>, Pct(50)),
             DailyScoreRec(<<11>>, NA), DailyScoreRec(<<12>>, Pct(20)) >>

----------------------------------------------------------------------------
(* C12: the labels of the week buckets                                     *)

\* the j-th Monday-aligned bucket of the range, clipped to endDate
BucketStart(j) == getWeekStart(caRange[1]) + 7 * (j - 1)
BucketEnd(j) == IF BucketStart(j) + 6 > caRange[2] THEN caRange[2] ELSE BucketStart(j) + 6

\* C12: in weekly mode a bucket is labelled "<bucket start> to <bucket end>",
\* except that a bucket whose start equals its end is labelled with that
\* single date.
C12_WeeklyLabels ==
    ~DailyMode =>
        \A i \in DOMAIN caResults :
            \A j \in DOMAIN caResults[i].dates :
                caResults[i].dates[j].date =
                    IF BucketStart(j) = BucketEnd(j)
                    THEN <<BucketStart(j)>>
                    ELSE <<BucketStart(j), BucketEnd(j)>>

----------------------------------------------------------------------------
(* C13: a failing score formula inside category analytics                  *)

FormulaFails(rs, cat) == Len(rs) = 0 \/ ~ValidScoreInput(rs, <<cat>>)

\* the ratings the j-th Dates entry of a category is computed from
BucketRatings(c, j) ==
    IF DailyMode THEN RatingsOn(caStore, c, caRange[1] + j - 1)
    ELSE RatingsWithin(caStore, c, BucketStart(j), BucketEnd(j))

\* C13: where the score formula fails on a day's, a week bucket's or the
\* whole range's ratings of a category, that score is "N/A"; the call does not
\* fail for it, and a call that returns without a fetch error has an entry
\* for every category.
C13_FormulaFailureIsNA ==
    /\ \A i \in DOMAIN caResults :
          /\ \A j \in DOMAIN caResults[i].dates :
                FormulaFails(BucketRatings(caCats[i].id, j), caCats[i])
                    => caResults[i].dates[j].score = NA
          /\ FormulaFails(caTotals[i], caCats[i]) => caResults[i].score = NA
    /\ caPc = "done" =>
          /\ caResult.status \in {"ok", "categoriesFailed", "fetchFailed"}
          /\ caResult.status = "ok" =>
                /\ Len(caResult.analytics) = Len(caCats)
                /\ \A i \in DOMAIN caCats : caResult.analytics[i].category = caCats[i].id

\* a day with an out-of-range value, a zero-weight category with ratings, and
\* a whole range spoilt by one value, in one successful call
C13_Witness ==
    /\ caPc = "done"
    /\ caResult.status = "ok"
    /\ caStore = "dirty"
    /\ caRange = <<13, 17>>
    /\ Len(caResult.analytics) = MaxCats
    /\ caResult.analytics[1].dates[4] = DailyScoreRec(<<16>>, NA)
    /\ Len(RatingsOn(caStore, 1, 16)) = 3
    /\ caResult.analytics[1].dates[3] = DailyScoreRec(<<15>>, Pct(20))
    /\ caResult.analytics[1].score = NA
    /\ caResult.analytics[2].ratings > 0
    /\ caResult.analytics[2].score = NA

C13_WitnessWeekly ==
    /\ caPc = "done"
    /\ caResult.status = "ok"
    /\ caStore = "dirty"
    /\ caRange = <<7, 40>>
    /\ Len(caResult.analytics) = MaxCats
    /\ caResult.analytics[1].dates[2] = DailyScoreRec(<<14, 20>>, NA)
    /\ caResult.analytics[1].dates[1].score # NA

----------------------------------------------------------------------------
(* C14: what makes GetCategoryAnalytics return an error                    *)

\* C14: the call fails as a whole only when the top-level category fetch
\* fails; nothing else during the call, a per-day ratings fetch included,
\* makes it return an error.
C14_OnlyCategoryFetchFails ==
    (caPc = "done" /\ caResult.status # "ok") => caFetchError = <<"GetAll">>

\* C14 as amended: the call fails exactly when a repository call fails, the
\* category fetch or a per-day ratings fetch; then no analytics are returned,
\* and nothing after the failed call is fetched.
C14_FailsExactlyOnFetchError ==
    /\ caPc = "done" =>
          /\ caResult.status = "ok" <=> caFetchError = <<>>
          /\ caResult.status = "categoriesFailed" <=> caFetchError = <<"GetAll">>
          /\ caResult.status # "ok" => caResult.analytics = <<>>
    /\ caFetchError # <<>> => caPc = "done"
    /\ caFetchError = <<"GetAll">> => caFetched = {}

C14_Witness ==
    /\ caPc = "done"
    /\ caResult.status = "fetchFailed"
    /\ caRange = <<8, 45>>
    /\ caFetchError = <<"GetByCategoryIDAndDate", 2, 16>>
    /\ Len(caResults) = 1
    /\ <<2, 16>> \in caFetched
    /\ <<2, 17>> \notin caFetched

----------------------------------------------------------------------------
(* C15: the form and rounding of every emitted score string                *)

\* a non-negative fraction rounded to the nearest integer, a tie going up
RoundHalfAway(f) == (2 * f[1] + f[2]) \div (2 * f[2])

\* s is "N/A" or the percentage 100 * tw / tm rounded half away from zero
\* (with nothing to divide by, the engine's numeric zero)
IsRoundedPct(s, tw, tm) ==
    \/ s = NA
    \/ s = Pct(IF tm > 0 THEN RoundHalfAway(<<100 * tw, tm>>) ELSE 0)

\* the ratings whose category the list knows (the others weigh nothing)
KnownPart(rs, cats) == SelectSeq(rs, LAMBDA r : r.cat \in ListedIds(cats))

RoundedFor(s, rs, cats) ==
    IsRoundedPct(s, WeightedSum(KnownPart(rs, cats), cats),
                 MaxPossibleSum(KnownPart(rs, cats), cats))

\* C15: every score string of category analytics, of a ticket record and of
\* the overall quality score is "N/A" or "<n>%", n being the exact percentage
\* rounded to the nearest integer with ties away from zero.
C15_RoundHalfAwayFromZero ==
    /\ \A i \in DOMAIN caResults :
          /\ RoundedFor(caResults[i].score, caTotals[i], <<caCats[i]>>)
          /\ \A j \in DOMAIN caResults[i].dates :
                RoundedFor(caResults[i].dates[j].score,
                           BucketRatings(caCats[i].id, j), <<caCats[i]>>)
    /\ \A j \in DOMAIN calcResult.categories :
          \A i \in DOMAIN calcCats :
              calcResult.categories[j].name = calcCats[i].id =>
                  RoundedFor(calcResult.categories[j].score, calcRatings[i], <<calcCats[i]>>)
    /\ oqResult.status = "ok" => RoundedFor(oqResult.score, oqStore, oqCats)

----------------------------------------------------------------------------
(* C16: the worked example                                                 *)

ExampleCategories == << [id |-> 1, weight |-> 10], [id |-> 2, weight |-> 5] >>
ExampleRatings ==
    << [cat |-> 1, value |-> 4], [cat |-> 1, value |-> 5], [cat |-> 2, value |-> 3],
       [cat |-> 2, value |-> 4], [cat |-> 1, value |-> 5] >>

\* C16: for the example's categories and ratings the weighted sum is 190, the
\* maximum possible sum 200 and the formatted score "95%", in the chunked
\* engine (whatever the chunking and scheduling) and in CalculateScore.
C16_Example ==
    (oqPc = "done" /\ oqResult.status = "ok"
       /\ oqStore = ExampleRatings /\ oqCats = ExampleCategories) =>
        /\ oqAgg.tw = 190
        /\ oqAgg.tm = 200
        /\ oqResult.score = Pct(95)
        /\ CalculateScore(oqStore, oqCats) = ScoreOk(190, 200)
        /\ FormatScore(CalculateScore(oqStore, oqCats).score) = Pct(95)

\* C16 as amended: the weighted sum of the example is
\* 4*10 + 5*10 + 3*5 + 4*5 + 5*10 = 175, the maximum possible sum 200 and the
\* formatted score "88%" (87.5 rounded), in the chunked engine and in
\* CalculateScore.
C16_ExampleIs88 ==
    (oqPc = "done" /\ oqResult.status = "ok"
       /\ oqStore = ExampleRatings /\ oqCats = ExampleCategories) =>
        /\ oqAgg.tw = 175
        /\ oqAgg.tm = 200
        /\ oqResult.score = Pct(88)
        /\ CalculateScore(oqStore, oqCats) = ScoreOk(175, 200)
        /\ FormatScore(CalculateScore(oqStore, oqCats).score) = Pct(88)

C16_Witness ==
    /\ oqPc = "done"
    /\ oqResult.status = "ok"
    /\ oqStore = ExampleRatings
    /\ oqCats = ExampleCategories
    /\ Len(chunks) = NumChunks(5)
    /\ oqLog = <<"count", "cats">> \o [k \in 1..NumChunks(5) |-> "page"]
    /\ oqResult.score = Pct(88)

----------------------------------------------------------------------------
(* C17: a positive count whose ratings all weigh nothing                   *)

AllChunksFetched ==
    /\ Len(chunks) = NumChunks(oqTotal)
    /\ \A k \in DOMAIN chunks : chunks[k].res.err = "none"

\* C17: with a positive rating count and a combined maximum possible sum of
\* zero, a call whose chunks all succeed returns the numeric score "0%", not
\* "N/A" and not an error, whereas CalculateScore fails on the same ratings.
C17_ZeroMaxSumIsZeroPercent ==
    (oqPc = "done" /\ oqTotal > 0 /\ AllChunksFetched
       /\ MaxPossibleSum(KnownPart(oqStore, oqCats), oqCats) = 0) =>
        /\ oqResult.status = "ok"
        /\ oqResult.score = Pct(0)
        /\ oqResult.score # NA
        /\ CalculateScore(oqStore, oqCats).err \in {"ZeroPossible", "UnknownCategory"}

C17_Witness ==
    /\ oqPc = "done"
    /\ oqTotal = 2
    /\ AllChunksFetched
    /\ oqCats = << [id |-> 1, weight |-> 0] >>
    /\ oqAgg = [tw |-> 0, tm |-> 0, errors |-> <<>>]
    /\ oqResult = OQScore(oqRange, Pct(0))
    /\ CalculateScore(oqStore, oqCats).err = "ZeroPossible"

----------------------------------------------------------------------------
(* C18: the chunk-combination law                                          *)

\* C18: for a valid rating set (known categories, values in 0..5, positive
\* total weight) split in any way into disjoint pages, the page sums added in
\* any order and divided give the percentage of one CalculateScore call on
\* the whole set.
C18_ChunkCombinationLaw ==
    (cbPc = "done" /\ ValidScoreInput(cbRatings, cbCats)) =>
        /\ CalculateScore(cbRatings, cbCats).err = "none"
        /\ cbScore = CalculateScore(cbRatings, cbCats).score
        /\ cbScore[1] * MaxPossibleSum(cbRatings, cbCats)
              = 100 * WeightedSum(cbRatings, cbCats) * cbScore[2]

\* the example split over three interleaved pages
C18_Witness ==
    /\ cbPc = "done"
    /\ cbRatings = ExampleRatings
    /\ cbCats = ExampleCategories
    /\ cbSplit = <<1, 2, 1, 3, 2>>
    /\ cbScore = <<175, 2>>

----------------------------------------------------------------------------
(* C19: CalculateScore under reordering of the ratings                     *)

Reorderings(n) == {f \in [1..n -> 1..n] : \A i, j \in 1..n : i # j => f[i] # f[j]}
Reordered(rs, f) == [i \in 1..Len(rs) |-> rs[f[i]]]

\* C19: every reordering of the rating list gives the same outcome of
\* CalculateScore: the same score, or the same failure (NoRatings,
\* UnknownCategory, OutOfRange or ZeroPossible).
C19_PermutationInvariant ==
    scorePc = "done" =>
        \A f \in Reorderings(Len(ratings)) :
            CalculateScore(Reordered(ratings, f), categories) = scoreResult

----------------------------------------------------------------------------
(* C20: processChunksConcurrently under a context cancelled before the call *)

\* C20: called with an already cancelled context and totalCount >= 1,
\* processChunksConcurrently returns an error and never a score, whatever
\* the scheduling of the chunk tasks and even if the page fetches succeed.
C20_CancelledCallFails ==
    oqPc = "done" => (oqResult.status = "chunksFailed" /\ oqResult.score = NA)

----------------------------------------------------------------------------
(* C21: a GetTicketScores call cancelled by its caller                     *)

SomeTicketUndelivered == \E t \in tsTickets : tsDelivered[t] = 0

\* C21: when the caller cancels before the stream is exhausted (a ticket is
\* still undelivered) and neither a fetch nor a stream.Send fails, the RPC
\* ends with status Canceled, never with normal completion.
C21_CancelReportsCanceled ==
    (tsRpc # "running" /\ tsCallerCancelled /\ SomeTicketUndelivered
       /\ ~tsFetchFailed /\ tsRpc # "sendFailed") => tsRpc = "canceled"

\* C21, second part: a delivered ticket record stays delivered
C21_DeliveredStay ==
    [][\A t \in tsTickets : tsDelivered'[t] >= tsDelivered[t]]_vars

----------------------------------------------------------------------------
(* C22: categories without a score inside one ticket's record              *)

CatFetchFailed == \E i \in DOMAIN catTasks : catTasks[i].res.err

\* C22: in a ticket's record a category without ratings for the ticket has
\* score "N/A" and so has a category on which the score formula fails;
\* neither fails the ticket: unless a ratings fetch failed the record is
\* returned without error and with all its categories.
C22_NoScoreIsNA ==
    calcPc = "done" =>
        /\ calcResult.status = "err" => CatFetchFailed
        /\ calcResult.status = "ok" =>
              /\ Len(calcResult.categories) = Len(calcCats)
              /\ \A i \in DOMAIN calcCats :
                    FormulaFails(calcRatings[i], calcCats[i]) =>
                        \E j \in DOMAIN calcResult.categories :
                            calcResult.categories[j] =
                                [name |-> calcCats[i].id, score |-> NA]

C22_Witness ==
    /\ calcPc = "done"
    /\ calcResult.status = "ok"
    /\ Len(calcCats) = MaxCats
    /\ calcRatings[1] = <<>>
    /\ calcRatings[2] # <<>>
    /\ calcCats[2].weight = 0
    /\ \A j \in 1..2 : calcResult.categories[j].score = NA

----------------------------------------------------------------------------
(* C23, C24: the two periods derived from a starting date                  *)

CivilDate(y, m, d) == [y |-> y, m |-> m, d |-> d]
\* the month after month m of year y
FollowingMonth(y, m) == IF m = 12 THEN [y |-> y + 1, m |-> 1] ELSE [y |-> y, m |-> m + 1]
\* the calendar date k months after c: the same day of the month, carried
\* over into the following month where the month reached is too short
MonthsLater(c, k) ==
    LET total == 12 * c.y + (c.m - 1) + k
        ty == total \div 12
        tm == (total % 12) + 1
        nx == FollowingMonth(ty, tm)
    IN IF c.d <= DaysInMonth(ty, tm) THEN CivilDate(ty, tm, c.d)
       ELSE CivilDate(nx.y, nx.m, c.d - DaysInMonth(ty, tm))

\* [s, s + k months - 1 day] and [s + k months, s + 2k months - 1 day]
MonthSpans(s, p, k) ==
    /\ p[1] = s
    /\ p[2] = p[3] - 1
    /\ Civil(p[3]) = MonthsLater(Civil(s), k)
    /\ Civil(p[4] + 1) = MonthsLater(Civil(s), 2 * k)

\* C23: calculatePeriodDates derives, for starting date s: WEEK [s, s+6] and
\* [s+7, s+13]; MONTH [s, last day of s's month] and the whole next month;
\* QUARTER [s, s+3 months-1 day] and [s+3 months, s+6 months-1 day]; YEAR
\* [s, s+1 year-1 day] and [s+1 year, s+2 years-1 day]; 2019-10-01 with WEEK
\* gives [2019-10-01, 2019-10-07] and [2019-10-08, 2019-10-14].
C23_PeriodDates ==
    (pdPc = "done" /\ pdUnit \in {WEEK, MONTH, QUARTER, YEAR}) =>
        LET s == pdStart
            c == Civil(pdStart)
            nx == FollowingMonth(c.y, c.m)
            p == pdResult.p
        IN /\ ~pdResult.err
           /\ pdUnit = WEEK => p = <<s, s + 6, s + 7, s + 13>>
           /\ pdUnit = MONTH =>
                 /\ p[1] = s
                 /\ Civil(p[2]) = CivilDate(c.y, c.m, DaysInMonth(c.y, c.m))
                 /\ Civil(p[3]) = CivilDate(nx.y, nx.m, 1)
                 /\ Civil(p[4]) = CivilDate(nx.y, nx.m, DaysInMonth(nx.y, nx.m))
           /\ pdUnit = QUARTER => MonthSpans(s, p, 3)
           /\ pdUnit = YEAR => MonthSpans(s, p, 12)
           /\ (pdUnit = WEEK /\ c = CivilDate(2019, 10, 1)) =>
                 /\ Civil(p[2]) = CivilDate(2019, 10, 7)
                 /\ Civil(p[3]) = CivilDate(2019, 10, 8)
                 /\ Civil(p[4]) = CivilDate(2019, 10, 14)

C23_Witness ==
    /\ pdPc = "done"
    /\ pdUnit = QUARTER
    /\ Civil(pdStart) = CivilDate(2019, 11, 30)
    /\ Civil(pdResult.p[3]) = CivilDate(2020, 3, 1)
    /\ Civil(pdResult.p[4]) = CivilDate(2020, 5, 29)

\* C24: for every starting date and every period unit, month-end and
\* leap-day starts included, each period's start is not after its end and
\* period 2 starts exactly one day after period 1 ends.
C24_ConsecutivePeriods ==
    (pdPc = "done" /\ ~pdResult.err) =>
        LET p == pdResult.p
        IN /\ p[1] <= p[2]
           /\ p[3] <= p[4]
           /\ p[3] = p[2] + 1

C24_Witness ==
    /\ pdPc = "done"
    /\ pdUnit = YEAR
    /\ Civil(pdStart) = CivilDate(2020, 2, 29)
    /\ Civil(pdResult.p[2]) = CivilDate(2021, 2, 28)
    /\ Civil(pdResult.p[3]) = CivilDate(2021, 3, 1)

C24_WitnessMonthEnd ==
    /\ pdPc = "done"
    /\ pdUnit = MONTH
    /\ Civil(pdStart) = CivilDate(2020, 1, 31)
    /\ pdResult.p[1] = pdResult.p[2]
    /\ Civil(pdResult.p[4]) = CivilDate(2020, 2, 29)

----------------------------------------------------------------------------
(* C25: the slots of a period comparison response                          *)

----------------------------------------------------------------------------
(* C26: the relative change between two score strings                      *)

IsNumberText(s) == s # NA /\ s # Unparsable
Abs(x) == IF x < 0 THEN -x ELSE x

C26_WitnessNegative ==
    /\ dfPc = "done"
    /\ dfOlder = Pct(89)
    /\ dfRecent = Pct(82)
    /\ dfResult = DiffText("-", 79)

C26_WitnessZeroBase ==
    /\ dfPc = "done"
    /\ dfOlder = Pct(0)
    /\ dfRecent = Pct(40)
    /\ dfResult = DiffNA

----------------------------------------------------------------------------
(* C27: requests that fail validation                                      *)

\* the request is missing a date, carries a malformed one, asks for a range
\* whose start is after its end, or names an unsupported period unit
InvalidRequest ==
    \/ srvReq.start.kind # "date"
    \/ srvHandler = "period" /\ srvReq.unit \notin {WEEK, MONTH, QUARTER, YEAR}
    \/ srvHandler = "overall" /\ srvReq.end.kind # "date"
    \/ srvHandler = "overall" /\ srvReq.start.day > srvReq.end.day

\* C27: a request that fails validation is rejected with InvalidArgument
\* before any aggregation work starts: the service layer is never invoked
\* for it.
C27_InvalidRejectedBeforeWork ==
    InvalidRequest =>
        /\ srvCalls = <<>>
        /\ srvPc \in {"validate", "done"}
        /\ srvPc = "done" => srvResponse.code = "InvalidArgument"

C27_Witness ==
    /\ srvHandler = "overall"
    /\ srvReq.start = DateField(280)
    /\ srvReq.end = DateField(273)
    /\ srvPc = "done"
    /\ srvResponse.code = "InvalidArgument"
    /\ srvCalls = <<>>

C27_WitnessUnit ==
    /\ srvHandler = "period"
    /\ srvReq.start = DateField(273)
    /\ srvReq.unit = YEAR + 1
    /\ srvPc = "done"
    /\ srvResponse.code = "InvalidArgument"
    /\ srvCalls = <<>>

----------------------------------------------------------------------------
(* C28: the same request against the same store gives the same output      *)

\* what each chunk task came to, in chunk order: <<chunk id, its error>>
ChunkOutcomes == [k \in DOMAIN chunks |-> <<chunks[k].id, chunks[k].res.err>>]
IsFailure(o) == o[2] # "none"
\* the output fixed by the request, the store and the fetches that failed
OutputOfInputs ==
    IF SelectSeq(ChunkOutcomes, IsFailure) # <<>>
    THEN OQError("chunksFailed", SelectSeq(ChunkOutcomes, IsFailure))
    ELSE LET sums == calculateChunkWeightedScore(oqStore, oqCats)
         IN OQScore(oqRange,
                    FormatScore(AggregateFinal([tw |-> sums[1], tm |-> sums[2],
                                                errors |-> <<>>]).score))

\* C28: a GetOverallQualityScore call that is not cancelled returns the
\* output its request, the store and the failing fetches determine, result
\* or error, whatever the completion order of its chunk tasks.
C28_SameOutputEveryRun ==
    (oqPc = "done" /\ ~oqCancelled /\ oqResult.status \in {"ok", "chunksFailed"}
       /\ chunks # <<>>) => oqResult = OutputOfInputs

\* the other run: the same two fetch failures reported in chunk order
C28_ErrorsInChunkOrder ==
    /\ oqPc = "done"
    /\ ~oqCancelled
    /\ Len(oqResult.errs) = 2
    /\ oqResult = OutputOfInputs

----------------------------------------------------------------------------
(* C29, C30: the permits that bound the parallel work                      *)

\* the chunk tasks between "semaphore <- struct{}{}" and the deferred "<-semaphore"
PermitHolders == {k \in DOMAIN chunks : chunks[k].pc \in {"fetch", "send", "release"}}
Fetching == {k \in DOMAIN chunks : chunks[k].pc = "fetch"}

\* C29: during a GetOverallQualityScore call at most maxGoroutines chunk
\* tasks hold a permit, a page fetch is in flight only in a task that holds
\* one, the permits taken are exactly those of the tasks holding one (each
\* is given back once), and none is held when the call returns.
C29_PermitsBoundChunks ==
    /\ Cardinality(PermitHolders) <= MaxGoroutines
    /\ oqSem = Cardinality(PermitHolders)
    /\ Fetching \subseteq PermitHolders
    /\ Cardinality(Fetching) <= oqSem
    /\ oqPc = "done" => oqSem = 0

C29_Witness ==
    /\ Len(chunks) > MaxGoroutines
    /\ oqSem = MaxGoroutines
    /\ Cardinality(Fetching) = MaxGoroutines
    /\ \E k \in DOMAIN chunks : chunks[k].pc = "acquire"

C29_WitnessReturned ==
    /\ oqPc = "done"
    /\ Len(chunks) > MaxGoroutines
    /\ oqSem = 0
    /\ \A k \in DOMAIN chunks : chunks[k].pc = "exit"

\* the ticket tasks between acquiring and releasing the permit
Scoring == {t \in DOMAIN tasks : tasks[t].pc \in {"calc", "sendErr", "sendRes", "release"}}

\* C30: during a GetTicketScores call at most as many tickets as there are
\* permits (10 in the service) are being scored at the same time.
C30_PermitsBoundTickets ==
    /\ Cardinality(Scoring) <= TicketPermits
    /\ tsSem = Cardinality(Scoring)

C30_Witness ==
    /\ Len(tasks) > TicketPermits
    /\ Cardinality(Scoring) = TicketPermits
    /\ \E t \in DOMAIN tasks : tasks[t].pc = "acquire"

----------------------------------------------------------------------------
(* C31: the join barrier of the chunked engine                             *)

FailedChunks == {k \in DOMAIN chunks : chunks[k].res.err # "none"}
\* the call went through processChunksConcurrently and has returned
ChunksReturned == oqPc = "done" /\ chunks # <<>>

\* C31: processChunksConcurrently returns, with a score or an error, only
\* after every chunk task of the call has delivered its single result and
\* terminated, also when some chunk failed: after the return no chunk task
\* is running or blocked and every result has been taken in.
C31_JoinBarrier ==
    ChunksReturned =>
        /\ Len(chunks) = NumChunks(oqTotal)
        /\ \A k \in DOMAIN chunks : chunks[k].pc = "exit" /\ chunks[k].res # NoResult
        /\ oqWg = 0
        /\ oqChan = <<>>
        /\ Len(oqAgg.errors) = Cardinality(FailedChunks)
        /\ {oqAgg.errors[i][1] : i \in DOMAIN oqAgg.errors}
              = {chunks[k].id : k \in FailedChunks}

C31_Witness ==
    /\ ChunksReturned
    /\ Len(chunks) > MaxGoroutines
    /\ oqResult.status = "chunksFailed"
    /\ Cardinality(FailedChunks) = 1
    /\ \A k \in DOMAIN chunks : chunks[k].pc = "exit"

----------------------------------------------------------------------------
(* C32: the work items of one call                                         *)

\* the positions of the ordered rating set a work item asks for
Slice(k) == chunks[k].offset .. (chunks[k].offset + chunks[k].limit - 1)
\* the tasks that have called GetByDateRangePaginated
PageFetched ==
    {k \in DOMAIN chunks :
        \/ chunks[k].pc \in {"send", "release"}
        \/ chunks[k].pc \in {"wgdone", "exit"} /\ chunks[k].res.err # "cancelled"}

\* C32: processChunksConcurrently builds exactly ceil(totalCount/chunkSize)
\* work items whose slices are pairwise disjoint, each of size 1..chunkSize,
\* and together cover exactly the positions 0..totalCount-1; each page is
\* fetched at most once per call, a failed fetch is never retried.
C32_WorkItemsPartition ==
    /\ \A k \in DOMAIN chunks : Cardinality(Slice(k)) \in 1..ChunkSize
    /\ \A j, k \in DOMAIN chunks : j # k => Slice(j) \cap Slice(k) = {}
    /\ (oqPc \in {"aggregate", "done"} /\ oqTotal >= 1 /\ oqResult.status # "categoriesFailed") =>
          /\ Len(chunks) = CeilChunks(oqTotal)
          /\ UNION {Slice(k) : k \in DOMAIN chunks} = 0..(oqTotal - 1)
    /\ CountIn(oqLog, "page") = Cardinality(PageFetched)
    /\ CountIn(oqLog, "page") <= Len(chunks)

C32_Witness ==
    /\ oqPc = "done"
    /\ oqTotal = MaxTotal
    /\ Len(chunks) > MaxGoroutines
    /\ chunks[Len(chunks)].limit < ChunkSize
    /\ FailedChunks # {}
    /\ CountIn(oqLog, "page") = Len(chunks)

----------------------------------------------------------------------------
(* C33: the week buckets of a range                                        *)

\* the buckets that contain day d, by the dates of their labels
BucketsOf(dates, d) == {j \in DOMAIN dates : dates[j].date[1] <= d /\ d <= dates[j].date[2]}

\* C33: in weekly mode the first bucket starts on the Monday on or before
\* startDate, every later bucket starts 7 days after the one before, each
\* bucket ends 6 days after its start except the final one, clipped to
\* endDate, and every day of [startDate, endDate] lies in exactly one
\* bucket, the buckets being listed in ascending order.
C33_MondayBuckets ==
    ~DailyMode =>
        \A i \in DOMAIN caResults :
            LET dates == caResults[i].dates
                n == Len(dates)
            IN /\ n >= 1
               /\ Weekday(dates[1].date[1]) = 1
               /\ dates[1].date[1] <= caRange[1]
               /\ caRange[1] - dates[1].date[1] < 7
               /\ \A j \in 2..n : dates[j].date[1] = dates[j - 1].date[1] + 7
               /\ \A j \in 1..(n - 1) : dates[j].date[2] = dates[j].date[1] + 6
               /\ dates[n].date[2] = caRange[2]
               /\ dates[n].date[2] <= dates[n].date[1] + 6
               /\ \A d \in caRange[1]..caRange[2] : Cardinality(BucketsOf(dates, d)) = 1

C33_Witness ==
    /\ ~DailyMode
    /\ caPc = "done"
    /\ caResult.status = "ok"
    /\ Len(caResult.analytics) = MaxCats
    /\ Weekday(caRange[1]) = 0
    /\ LET dates == caResult.analytics[1].dates
       IN /\ dates[1].date[1] = caRange[1] - 6
          /\ dates[Len(dates)].date[2] < dates[Len(dates)].date[1] + 6

----------------------------------------------------------------------------
(* C34: ticket tasks after cancellation                                    *)

\* every ticket task has terminated and both channels are closed
TSAllStopped ==
    /\ tsPc = "done"
    /\ tsResClosed
    /\ tsErrClosed
    /\ \A t \in DOMAIN tasks : tasks[t].pc = "exit"

\* C34: after the GetTicketScores context is cancelled no ticket task stays
\* blocked forever, even with a consumer that has stopped receiving and a
\* full result queue or error slot: every ticket task eventually terminates
\* and both channels are eventually closed.
C34_CancelledTasksTerminate == tsCancelled ~> TSAllStopped

\* the consumer is gone, the result queue was left full, and all has stopped
C34_Witness ==
    /\ tsCancelled
    /\ tsRpc = "canceled"
    /\ Len(tsResChan) = ResultCap
    /\ tsTickets = 1..MaxTickets
    /\ \E t \in tsTickets : tsDelivered[t] = 0
    /\ TSAllStopped

----------------------------------------------------------------------------
(* C35: ratings of an unlisted category in the chunked engine              *)

\* the ratings of a page whose category is in the loaded list, and the others
ListedRatings(page) == SelectSeq(page, LAMBDA r : r.cat \in ListedIds(oqCats))
HasUnlisted(page) == \E i \in DOMAIN page : page[i].cat \notin ListedIds(oqCats)

\* C35: in the chunked engine a rating whose category is not in the loaded
\* list weighs 0: it adds nothing to the weighted sum nor to the maximum sum
\* and causes no error (a chunk fails only by its fetch or by cancellation),
\* whereas CalculateScore fails on such a rating.
C35_UnlistedCategoryWeighsZero ==
    /\ \A k \in DOMAIN chunks :
          LET page == Page(oqStore, chunks[k].limit, chunks[k].offset)
              res == chunks[k].res
          IN /\ res.err \in {"unset", "none", "fetchFailed", "cancelled"}
             /\ res.err = "none" =>
                   /\ res.ws = WeightedSum(ListedRatings(page), oqCats)
                   /\ res.ms = MaxPossibleSum(ListedRatings(page), oqCats)
                   /\ HasUnlisted(page) => CalculateScore(page, oqCats).err # "none"
    /\ (ChunksReturned /\ FailedChunks = {}) =>
          /\ oqResult.status = "ok"
          /\ ~oqResult.score.na

C35_Witness ==
    /\ ChunksReturned
    /\ oqResult.status = "ok"
    /\ oqAgg.tm > 0
    /\ \E k \in DOMAIN chunks :
          LET page == Page(oqStore, chunks[k].limit, chunks[k].offset)
          IN /\ HasUnlisted(page)
             /\ \E i \in DOMAIN page : page[i].value > 0
             /\ chunks[k].res.err = "none"
             /\ chunks[k].res.ws = 0
             /\ chunks[k].res.ms = 0

----------------------------------------------------------------------------
(* C36: GetOverallQualityScore terminates                                  *)

\* a chunk task about to send its result finds room in resultChan
SendNeverBlocks ==
    \A k \in DOMAIN chunks :
        chunks[k].pc \in {"acquire", "fetch", "send"} => Len(oqChan) < NumChunks(oqTotal)

\* C36: under fair scheduling, every repository call returning,
\* GetOverallQualityScore always terminates with a result or an error,
\* whatever the count, the failing fetches and the moment of cancellation,
\* and no chunk task ever blocks sending its result.
C36_AlwaysTerminates ==
    /\ <>(oqPc = "done" /\ oqResult.status # "none")
    /\ []SendNeverBlocks

C36_Witness ==
    /\ oqPc = "done"
    /\ oqCancelled
    /\ Len(chunks) > MaxGoroutines
    /\ \E k \in DOMAIN chunks : chunks[k].res.err = "cancelled"
    /\ \E k \in DOMAIN chunks : chunks[k].res.err = "fetchFailed"
    /\ \A k \in DOMAIN chunks : chunks[k].pc = "exit"

\* ---------------------------------------------------------------------------
\* C37: no value is sent on a channel after it is closed, no channel is closed
\* twice, and a result or error channel is closed only after every goroutine
\* that can send on it has finished
\* ---------------------------------------------------------------------------

\* every goroutine that sends on the channel has been started and has returned
TicketSendersFinished ==
    /\ tsPc \in {"closeErr", "closeRes", "done"}
    /\ \A t \in DOMAIN tasks : tasks[t].pc = "exit"

CategorySendersFinished ==
    /\ DOMAIN catTasks = DOMAIN calcCats
    /\ \A i \in DOMAIN catTasks : catTasks[i].pc = "exit"

ChunkSendersFinished ==
    /\ Len(chunks) = NumChunks(oqTotal)
    /\ \A k \in DOMAIN chunks : chunks[k].pc = "exit"

ClosedAfterSenders ==
    /\ tsErrClosed => TicketSendersFinished
    /\ tsResClosed => TicketSendersFinished /\ tsErrClosed
    /\ calcChanClosed => CategorySendersFinished
    /\ oqChanClosed => ChunkSendersFinished

\* a step that appends to a channel's buffer is a send on it
NoSendAfterClose ==
    /\ tsErrClosed => Len(tsErrChan') <= Len(tsErrChan)
    /\ tsResClosed => Len(tsResChan') <= Len(tsResChan)
    /\ calcChanClosed => Len(calcChan') <= Len(calcChan)
    /\ oqChanClosed => Len(oqChan') <= Len(oqChan)

NoSecondClose ==
    /\ tsErrClosed => ~TSCloseErrorChan
    /\ tsResClosed => ~TSCloseResultChan
    /\ calcChanClosed => ~CalcCloser
    /\ oqChanClosed => ~OQCloser

C37_ChannelDiscipline ==
    /\ []ClosedAfterSenders
    /\ [][NoSendAfterClose /\ NoSecondClose]_vars

\* both channels of GetTicketScores closed while each still holds what a task
\* sent: a record and an error, more than one ticket
C37_Witness ==
    /\ tsErrClosed /\ tsResClosed
    /\ tsResChan # <<>> /\ tsErrChan # <<>>
    /\ Cardinality(tsTickets) > 1 /\ DOMAIN tasks = tsTickets
    /\ \A t \in DOMAIN tasks : tasks[t].pc = "exit"

\* ---------------------------------------------------------------------------
\* C38: if every stored rating value is in 0..5 and every category weight is
\* non-negative, every numeric score a service produces (per day, per week
\* bucket, per category, per ticket category, overall quality) lies between
\* 0% and 100% inclusive
\* ---------------------------------------------------------------------------

RatingsInRange(rs) == \A i \in DOMAIN rs : rs[i].value >= 0 /\ rs[i].value <= 5
WeightsNonNegative(cats) == \A i \in DOMAIN cats : cats[i].weight >= 0
\* a score string that is a number is a percentage within 0..100
WithinPercent(s) == s.na \/ (s.pct >= 0 /\ s.pct <= 100)

\* the days GetCategoryAnalytics can fetch for the request
CADays == getWeekStart(caRange[1])..caRange[2]

AnalyticsPrecondition ==
    /\ WeightsNonNegative(caCats)
    /\ \A i \in DOMAIN caCats : \A d \in CADays :
           RatingsInRange(RatingsOn(caStore, caCats[i].id, d))

TicketPrecondition ==
    /\ WeightsNonNegative(calcCats)
    /\ \A i \in DOMAIN calcRatings : RatingsInRange(calcRatings[i])

OverallPrecondition == WeightsNonNegative(oqCats) /\ RatingsInRange(oqStore)

C38_ScoresWithinPercent ==
    /\ AnalyticsPrecondition =>
          \A j \in DOMAIN caResults :
              /\ WithinPercent(caResults[j].score)
              /\ \A n \in DOMAIN caResults[j].dates :
                     WithinPercent(caResults[j].dates[n].score)
    /\ TicketPrecondition =>
          \A j \in DOMAIN calcOut : WithinPercent(calcOut[j].score)
    /\ OverallPrecondition =>
          /\ WithinPercent(oqResult.score)
          /\ oqAgg.tw >= 0 /\ oqAgg.tw <= oqAgg.tm

\* an overall quality score over several pages of in-range ratings, with
\* weights 10 and 5
C38_Witness ==
    /\ oqPc = "done" /\ oqResult.status = "ok"
    /\ OverallPrecondition
    /\ Len(oqCats) = MaxCats /\ Len(chunks) > 1
    /\ oqAgg.tw > 0 /\ oqAgg.tw < oqAgg.tm
    /\ ~oqResult.score.na /\ oqResult.score.pct > 0

====
